---- MODULE Spec2Model ----
(***************************************************************************)
(* The project/sprint/task store (ProjectProvider) of the Scrum web        *)
(* application: a client-side cache over a hosted relational store, with   *)
(* per-key freshness bookkeeping, read-through fetches, forced refreshes   *)
(* and cascading deletes.                                                  *)
(*                                                                         *)
(* Every async function of the provider is a frame on the call stack of a  *)
(* logical task.  A task runs atomically from one suspension point (an     *)
(* awaited remote call or an awaited delay) to the next.  The functions of *)
(* one task are the closures of the render in which the task was started:  *)
(* what they READ of the React state (user, isLoading, projects, sprints,  *)
(* tasks, lastFetchTime, fetchErrors) is the value captured by that render *)
(* (snap); what they WRITE goes to the live state through the state        *)
(* setters.                                                                *)
(*                                                                         *)
(* The burndown series of the chart (generateBurndownData of               *)
(* BurndownChart) is a function of the cached sprints and tasks, of the    *)
(* clock and of the time zone of the runtime: sprint dates are read as     *)
(* local midnights and written back as UTC days.                           *)
(*                                                                         *)
(* The two effects of BurndownChart (loading the saved series, and         *)
(* regenerating it when the number of tasks or sprints changes) run after  *)
(* every render; SpecRecomputeFair adds that timers fire and that the      *)
(* remote store answers.                                                   *)
(***************************************************************************)
EXTENDS Integers, Sequences, FiniteSets, TLC

\* ------------------------------------------------------------------ bounds
MaxTicks == 2
MaxDays == 1
MaxCalls == 3
MaxFailures == 1
\* the longest span of one sprint, in days
MaxSpanDays == 9

\* --------------------------------------------------------------- constants
DefaultMaxAge == 60000
BurndownDays == 21
\* the clock moves by one maxAge at a time
TickMs == DefaultMaxAge
\* toISOString().split('T')[0] changes every 24 h
DayMs == 24 * 60 * 60 * 1000
\* the clock at login, on day 1
StartNow == DayMs + 100000

ProjectIds == {"p1", "p2", "p3"}
SprintIds == {"s1", "s2"}
Procs == {"a", "b"}

ProjectOrder == <<"p1", "p2", "p3">>
SprintOrder == <<"s1", "s2">>
TaskOrder == <<"t1", "t2">>
ColumnOrder == <<"c1", "c2">>

NULL == "null"
\* user.id of the signed-in user, and the id of another member of a shared project
Me == "u1"
Other == "u2"
SprintStatuses == {"planned", "completed"}
NoDate == 0

VARIABLES
  user,            \* useAuth().user: TRUE iff an actor is authenticated
  isLoading,       \* useState isLoading
  projects,        \* useState projects: sequence of Project
  sprints,         \* useState sprints: sequence of Sprint
  tasks,           \* useState tasks: sequence of Task
  burndownData,    \* useState burndownData: projectId -> series
  lastFetchTime,   \* useState lastFetchTime: key -> ms, 0 = no entry
  fetchErrors,     \* useState fetchErrors: key -> flag
  lftOwner,        \* the task whose newFetchTime object is the lastFetchTime state object
  now,             \* Date.now()
  procs,           \* the logical tasks in flight: call stack and captured render
  rProjects,       \* remote table projects (rows owned by the actor)
  rCollab,         \* remote table collaborators (rows of the actor)
  rSprints,        \* remote table sprints
  rTasks,          \* remote table tasks
  rColumns,        \* remote table board_columns
  issued,          \* the primary keys the remote store has handed out so far
  calls,           \* how many calls the UI has made
  failures,        \* how many remote calls have failed
  trace,           \* what the last step did: the events of one atomic run
  chartData,       \* BurndownChart: useState chartData, the series on display
  zone,            \* the time zone of the runtime: local time - UTC, in ms
  chartIsLoading,  \* BurndownChart: useState isLoading
  isUpdating,      \* BurndownChart: useState isUpdating
  lastTasksLength,   \* BurndownChart: useState lastTasksLength
  lastSprintsLength, \* BurndownChart: useState lastSprintsLength
  dataFetchedRef,  \* BurndownChart: dataFetchedRef.current
  loadingTimeoutRef, \* BurndownChart: TRUE iff the timer of loadingTimeoutRef is pending
  loads,           \* BurndownChart: the loadBurndownData runs in flight
  updates,         \* BurndownChart: the updateBurndownData runs in flight
  rBurndown        \* remote table burndown_data: the series saved for the project

cacheVars == <<projects, sprints, tasks, burndownData>>
freshVars == <<lastFetchTime, fetchErrors, lftOwner>>
remoteVars == <<rProjects, rCollab, rSprints, rTasks, rColumns, issued>>
componentVars == <<chartIsLoading, isUpdating, lastTasksLength, lastSprintsLength,
                   dataFetchedRef, loadingTimeoutRef, loads, updates, rBurndown>>
chartVars == <<chartData, zone, componentVars>>
vars == <<user, isLoading, projects, sprints, tasks, burndownData, lastFetchTime,
          fetchErrors, lftOwner, now, procs, rProjects, rCollab, rSprints, rTasks,
          rColumns, issued, calls, failures, trace, chartData, zone, componentVars>>

\* ------------------------------------------------------------ cache keys
Keys == {<<"projects", "">>, <<"collaborations", "">>}
          \cup ({"sprints", "backlog"} \X ProjectIds)
          \cup ({"tasks-sprint"} \X SprintIds)

cacheKey(kind, id) == <<kind, id>>

\* ------------------------------------------------------- sequence helpers
Range(s) == {s[i] : i \in 1..Len(s)}

Some(s, P(_)) == \E i \in 1..Len(s) : P(s[i])

MapSeq(s, F(_)) == [i \in 1..Len(s) |-> F(s[i])]

Find(s, P(_)) == LET hits == SelectSeq(s, P) IN Head(hits)

\* The rows of a remote select, in primary-key order.
RowsOf(table, order) ==
  LET ids == SelectSeq(order, LAMBDA x : \E r \in table : r.id = x)
  IN  [i \in 1..Len(ids) |-> CHOOSE r \in table : r.id = ids[i]]

\* ----------------------------------------------------------------- dates
toISODate(ms) == ms \div DayMs

generateDefaultBurndownData(ms) ==
  [i \in 1..BurndownDays |-> [date |-> toISODate(ms) + (i - 1), ideal |-> 0, actual |-> 0]]

\* ------------------------------------------- remote row -> domain record
formatProject(row, collab) == [id |-> row.id, title |-> row.title, isCollaboration |-> collab]

formatSprint(row) == [id |-> row.id, projectId |-> row.project_id, status |-> row.status]

formatTask(row) ==
  [id |-> row.id,
   sprintId |-> IF row.sprint_id = NULL THEN "" ELSE row.sprint_id,
   status |-> row.status,
   projectId |-> row.project_id,
   completionDate |-> row.completion_date]

formatBacklogTask(row) ==
  [id |-> row.id,
   sprintId |-> "",
   status |-> "backlog",
   projectId |-> row.project_id,
   completionDate |-> row.completion_date]

\* --------------------------------------------------- frames and the world
\* A Partial<...> argument: NULL stands for a key that is not passed (undefined).
NoPatch == [status |-> NULL, sprintId |-> NULL, hasCompletionDate |-> FALSE,
            completionDate |-> NoDate, projectId |-> NULL, title |-> NULL]
NoTask == [id |-> "", sprintId |-> "", status |-> "", projectId |-> "", completionDate |-> NoDate]

Frame(fn, id, force) ==
  [fn |-> fn, pc |-> "entry", id |-> id, force |-> force, todo |-> <<>>,
   patch |-> NoPatch, was |-> NoTask, upd |-> NoTask, pid |-> "", ids |-> <<>>]

FrameP(fn, id, patch) == [Frame(fn, id, FALSE) EXCEPT !.patch = patch]

AwaitPcs == {"read", "delay", "delay1", "delay2", "colQuery", "colDelete", "tasksDelete",
             "sprintDelete", "delBacklog", "delProject", "insert", "update", "stamp",
             "delete"}

EmptySnap == [user |-> FALSE, isLoading |-> FALSE, projects |-> <<>>, sprints |-> <<>>,
              tasks |-> <<>>, lastFetchTime |-> [k \in Keys |-> 0],
              fetchErrors |-> [k \in Keys |-> FALSE], lftAlias |-> ""]

NoOp == [fn |-> "", id |-> ""]

Idle == [stack |-> <<>>, snap |-> EmptySnap, toasts |-> <<>>, op |-> NoOp, failed |-> FALSE]

\* The render captured by the closures of a task started now.
Render == [user |-> user, isLoading |-> isLoading, projects |-> projects,
           sprints |-> sprints, tasks |-> tasks, lastFetchTime |-> lastFetchTime,
           fetchErrors |-> fetchErrors, lftAlias |-> lftOwner]

World(p, pr) ==
  [me |-> p, user |-> user, isLoading |-> isLoading, projects |-> projects,
   sprints |-> sprints, tasks |-> tasks, burndownData |-> burndownData,
   lastFetchTime |-> lastFetchTime, fetchErrors |-> fetchErrors, lftOwner |-> lftOwner,
   now |-> now, stack |-> pr.stack, snap |-> pr.snap, toasts |-> pr.toasts, op |-> pr.op,
   failed |-> pr.failed,
   exc |-> "", trace |-> <<>>, aliasReset |-> FALSE, aliasDeleted |-> {}]

Top(c) == Head(c.stack)

Goto(c, pc) == [c EXCEPT !.stack[1].pc = pc]

Pop(c) == [c EXCEPT !.stack = Tail(@)]

Call(c, retpc, f) == [c EXCEPT !.stack = <<f, [Top(c) EXCEPT !.pc = retpc]>> \o Tail(@)]

Throw(c, err) == [c EXCEPT !.exc = err]

\* ----------------------------------------------------------------- events
Ev(kind, fn, id) ==
  [kind |-> kind, fn |-> fn, id |-> id, by |-> "", pc |-> "", err |-> "", force |-> FALSE,
   authed |-> TRUE, fresh |-> FALSE, errored |-> FALSE, nonEmpty |-> FALSE, rows |-> 0,
   dropped |-> 0, failed |-> FALSE, op |-> ""]

\* an event of the running step, stamped with the task it belongs to, with the
\* operation the UI called and with whether a remote call of that task has failed
\* so far
Emit(c, e) ==
  LET failed == c.failed \/ e.kind = "fail"
  IN  [c EXCEPT !.trace = Append(@, [e EXCEPT !.by = c.me, !.failed = failed,
                                              !.op = c.op.fn]),
                !.failed = failed]

toast(c, kind, text) ==
  Emit([c EXCEPT !.toasts = Append(@, <<kind, text>>)], Ev(kind, text, ""))

\* ------------------------------------------------------- FreshnessPolicy
shouldRefetch(lft, t, key, maxAge) == t - lft[key] > maxAge

\* a variant that builds the new lastFetchTime without spreading the previous one
updateFetchTime_dropsOthers(c, key) ==
  [c EXCEPT !.lastFetchTime = [k \in Keys |-> IF k = key THEN c.now ELSE 0],
            !.fetchErrors[key] = FALSE, !.lftOwner = ""]

updateFetchTime(c, key) ==
  [c EXCEPT !.lastFetchTime[key] = c.now, !.fetchErrors[key] = FALSE, !.lftOwner = ""]

\* a variant that also forgets when the key was last fetched
markFetchError_forgetsTime(c, key) ==
  [c EXCEPT !.fetchErrors[key] = TRUE, !.lastFetchTime[key] = 0]

markFetchError(c, key) == [c EXCEPT !.fetchErrors[key] = TRUE]

\* What the live state says about a scope when a fetch is entered.
ScopeNonEmpty(c, kind, id) ==
  CASE kind = "projects" -> Some(c.projects, LAMBDA x : ~x.isCollaboration)
    [] kind = "collaborations" -> Some(c.projects, LAMBDA x : x.isCollaboration)
    [] kind = "sprints" -> Some(c.sprints, LAMBDA x : x.projectId = id)
    [] kind = "tasks-sprint" -> Some(c.tasks, LAMBDA x : x.sprintId = id)
    [] kind = "backlog" ->
         Some(c.tasks, LAMBDA x : x.projectId = id /\ x.status = "backlog" /\ x.sprintId = "")

Entered(c, kind, outcome, fn, id, force) ==
  Emit(c, [kind |-> outcome, fn |-> fn, id |-> id, by |-> "", pc |-> "entry", err |-> "",
           force |-> force, authed |-> c.user,
           fresh |-> ~shouldRefetch(c.lastFetchTime, c.now, cacheKey(kind, id), DefaultMaxAge),
           errored |-> c.fetchErrors[cacheKey(kind, id)],
           nonEmpty |-> ScopeNonEmpty(c, kind, id), rows |-> 0, dropped |-> 0,
           failed |-> FALSE, op |-> ""])

\* ---------------------------------------------------------- fetchProjects
fetchProjects_entry(c) ==
  LET f == Top(c)
      key == cacheKey("projects", "")
  IN  IF ~c.snap.user \/ c.snap.isLoading
      THEN Pop(Entered(c, "projects", "skip", "fetchProjects", "", FALSE))
      ELSE IF /\ ~shouldRefetch(c.snap.lastFetchTime, c.now, key, DefaultMaxAge)
              /\ Len(c.snap.projects) > 0
              /\ ~c.snap.fetchErrors[key]
           THEN Pop(Entered(c, "projects", "hit", "fetchProjects", "", FALSE))
           ELSE Goto([Entered(c, "projects", "issue", "fetchProjects", "", FALSE)
                        EXCEPT !.isLoading = TRUE], "read")

\* a variant without the finally block: a failed read leaves the flag set
fetchProjects_response_noFinally(c, ok, rows) ==
  LET key == cacheKey("projects", "")
  IN  IF ~ok
      THEN LET c1 == markFetchError(Emit(c, Ev("fail", "fetchProjects", "")), key)
           IN  Pop(toast(c1, "toast.error", "Failed to load projects"))
      ELSE LET formattedProjects == MapSeq(rows, LAMBDA r : formatProject(r, FALSE))
               c1 == [c EXCEPT !.projects = formattedProjects]
               c2 == updateFetchTime(c1, key)
               c3 == Emit(c2, [Ev("ok", "fetchProjects", "") EXCEPT !.rows = Len(rows)])
           IN  [c3 EXCEPT !.stack[1].pc = "loop",
                          !.stack[1].todo = MapSeq(formattedProjects, LAMBDA x : x.id)]

\* rows: the projects rows with owner_id = user.id
fetchProjects_response(c, ok, rows) ==
  LET key == cacheKey("projects", "")
  IN  IF ~ok
      THEN LET c1 == markFetchError(Emit(c, Ev("fail", "fetchProjects", "")), key)
               c2 == toast(c1, "toast.error", "Failed to load projects")
           IN  Pop([c2 EXCEPT !.isLoading = FALSE])
      ELSE LET formattedProjects == MapSeq(rows, LAMBDA r : formatProject(r, FALSE))
               c1 == [c EXCEPT !.projects = formattedProjects]
               c2 == updateFetchTime(c1, key)
               c3 == Emit(c2, [Ev("ok", "fetchProjects", "") EXCEPT !.rows = Len(rows)])
           IN  [c3 EXCEPT !.stack[1].pc = "loop",
                          !.stack[1].todo = MapSeq(formattedProjects, LAMBDA x : x.id)]

\* a variant that fetches a project's backlog before its sprints
fetchProjects_loop_backlogFirst(c) ==
  LET f == Top(c)
  IN  IF f.todo = <<>>
      THEN Pop([Emit(c, Ev("return", "fetchProjects", "")) EXCEPT !.isLoading = FALSE])
      ELSE Call(c, "delay1", Frame("fetchBacklogTasks", Head(f.todo), FALSE))

fetchProjects_loop(c) ==
  LET f == Top(c)
  IN  IF f.todo = <<>>
      THEN Pop([Emit(c, Ev("return", "fetchProjects", "")) EXCEPT !.isLoading = FALSE])
      ELSE Call(c, "delay1", Frame("fetchSprints", Head(f.todo), FALSE))

fetchProjects_afterDelay1(c) ==
  Call(c, "delay2", Frame("fetchBacklogTasks", Head(Top(c).todo), FALSE))

fetchProjects_afterDelay2(c) ==
  [c EXCEPT !.stack[1].pc = "loop", !.stack[1].todo = Tail(@)]

\* ----------------------------------------------------------- fetchSprints
fetchSprints_entry(c) ==
  LET f == Top(c)
      cacheKeyS == cacheKey("sprints", f.id)
  IN  IF ~c.snap.user
      THEN Pop(Entered(c, "sprints", "skip", "fetchSprints", f.id, f.force))
      ELSE IF /\ ~f.force
              /\ ~shouldRefetch(c.snap.lastFetchTime, c.now, cacheKeyS, DefaultMaxAge)
              /\ Some(c.snap.sprints, LAMBDA s : s.projectId = f.id)
              /\ ~c.snap.fetchErrors[cacheKeyS]
           THEN Pop(Entered(c, "sprints", "hit", "fetchSprints", f.id, f.force))
           ELSE Goto(Entered(c, "sprints", "issue", "fetchSprints", f.id, f.force), "read")

\* a variant that replaces the whole sprint cache by the fetched rows
fetchSprints_response_replacesAll(c, ok, rows) ==
  LET f == Top(c)
      cacheKeyS == cacheKey("sprints", f.id)
  IN  IF ~ok
      THEN Pop(markFetchError(Emit(c, Ev("fail", "fetchSprints", f.id)), cacheKeyS))
      ELSE LET formattedSprints == MapSeq(rows, formatSprint)
               c1 == [c EXCEPT !.sprints = formattedSprints]
               c2 == updateFetchTime(c1, cacheKeyS)
               c3 == Emit(c2, [Ev("ok", "fetchSprints", f.id)
                                 EXCEPT !.rows = Len(rows),
                                        !.dropped = Len(c.sprints) - Len(formattedSprints)])
           IN  [c3 EXCEPT !.stack[1].pc = "loop",
                          !.stack[1].todo = MapSeq(formattedSprints, LAMBDA s : s.id)]

\* rows: the sprints rows with project_id = projectId
fetchSprints_response(c, ok, rows) ==
  LET f == Top(c)
      cacheKeyS == cacheKey("sprints", f.id)
  IN  IF ~ok
      THEN Pop(markFetchError(Emit(c, Ev("fail", "fetchSprints", f.id)), cacheKeyS))
      ELSE LET formattedSprints == MapSeq(rows, formatSprint)
               filtered == SelectSeq(c.sprints, LAMBDA s : s.projectId # f.id)
               c1 == [c EXCEPT !.sprints = filtered \o formattedSprints]
               c2 == updateFetchTime(c1, cacheKeyS)
               c3 == Emit(c2, [Ev("ok", "fetchSprints", f.id)
                                 EXCEPT !.rows = Len(rows),
                                        !.dropped = Len(c.sprints) - Len(filtered)])
           IN  [c3 EXCEPT !.stack[1].pc = "loop",
                          !.stack[1].todo = MapSeq(formattedSprints, LAMBDA s : s.id)]

fetchSprints_loop(c) ==
  LET f == Top(c)
  IN  IF f.todo = <<>>
      THEN Pop(Emit(c, Ev("return", "fetchSprints", f.id)))
      ELSE Call(c, "delay", Frame("fetchTasksBySprint", Head(f.todo), f.force))

fetchSprints_afterDelay(c) ==
  [c EXCEPT !.stack[1].pc = "loop", !.stack[1].todo = Tail(@)]

\* ----------------------------------------------------- fetchTasksBySprint
fetchTasksBySprint_entry(c) ==
  LET f == Top(c)
      cacheKeyT == cacheKey("tasks-sprint", f.id)
  IN  IF ~c.snap.user
      THEN Pop(Entered(c, "tasks-sprint", "skip", "fetchTasksBySprint", f.id, f.force))
      ELSE IF /\ ~f.force
              /\ ~shouldRefetch(c.snap.lastFetchTime, c.now, cacheKeyT, DefaultMaxAge)
              /\ Some(c.snap.tasks, LAMBDA t : t.sprintId = f.id)
              /\ ~c.snap.fetchErrors[cacheKeyT]
           THEN Pop(Entered(c, "tasks-sprint", "hit", "fetchTasksBySprint", f.id, f.force))
           ELSE Goto(Entered(c, "tasks-sprint", "issue", "fetchTasksBySprint", f.id, f.force),
                     "read")

\* a variant that replaces the whole task cache by the fetched rows
fetchTasksBySprint_response_replacesAll(c, ok, rows) ==
  LET f == Top(c)
      cacheKeyT == cacheKey("tasks-sprint", f.id)
  IN  IF ~ok
      THEN Pop(markFetchError(Emit(c, Ev("fail", "fetchTasksBySprint", f.id)), cacheKeyT))
      ELSE LET formattedTasks == MapSeq(rows, formatTask)
               c1 == [c EXCEPT !.tasks = formattedTasks]
               c2 == updateFetchTime(c1, cacheKeyT)
           IN  Pop(Emit(c2, [Ev("ok", "fetchTasksBySprint", f.id)
                               EXCEPT !.rows = Len(rows),
                                      !.dropped = Len(c.tasks) - Len(formattedTasks)]))

\* rows: the tasks rows with sprint_id = sprintId
fetchTasksBySprint_response(c, ok, rows) ==
  LET f == Top(c)
      cacheKeyT == cacheKey("tasks-sprint", f.id)
  IN  IF ~ok
      THEN Pop(markFetchError(Emit(c, Ev("fail", "fetchTasksBySprint", f.id)), cacheKeyT))
      ELSE LET formattedTasks == MapSeq(rows, formatTask)
               filtered == SelectSeq(c.tasks, LAMBDA t : t.sprintId # f.id)
               c1 == [c EXCEPT !.tasks = filtered \o formattedTasks]
               c2 == updateFetchTime(c1, cacheKeyT)
           IN  Pop(Emit(c2, [Ev("ok", "fetchTasksBySprint", f.id)
                               EXCEPT !.rows = Len(rows),
                                      !.dropped = Len(c.tasks) - Len(filtered)]))

\* ------------------------------------------------------ fetchBacklogTasks
fetchBacklogTasks_entry(c) ==
  LET f == Top(c)
      cacheKeyB == cacheKey("backlog", f.id)
  IN  IF ~c.snap.user
      THEN Pop(Entered(c, "backlog", "skip", "fetchBacklogTasks", f.id, f.force))
      ELSE IF /\ ~f.force
              /\ ~shouldRefetch(c.snap.lastFetchTime, c.now, cacheKeyB, DefaultMaxAge)
              /\ Some(c.snap.tasks,
                      LAMBDA t : t.projectId = f.id /\ t.status = "backlog" /\ t.sprintId = "")
              /\ ~c.snap.fetchErrors[cacheKeyB]
           THEN Pop(Entered(c, "backlog", "hit", "fetchBacklogTasks", f.id, f.force))
           ELSE Goto(Entered(c, "backlog", "issue", "fetchBacklogTasks", f.id, f.force), "read")

\* rows: the tasks rows with sprint_id null, project_id = projectId, status = 'backlog'
fetchBacklogTasks_response(c, ok, rows) ==
  LET f == Top(c)
      cacheKeyB == cacheKey("backlog", f.id)
  IN  IF ~ok
      THEN Pop(markFetchError(Emit(c, Ev("fail", "fetchBacklogTasks", f.id)), cacheKeyB))
      ELSE LET formattedTasks == MapSeq(rows, formatBacklogTask)
               filtered == SelectSeq(c.tasks,
                             LAMBDA t : ~(t.status = "backlog" /\ t.projectId = f.id
                                          /\ t.sprintId = ""))
               c1 == [c EXCEPT !.tasks = filtered \o formattedTasks]
               c2 == updateFetchTime(c1, cacheKeyB)
           IN  Pop(Emit(c2, [Ev("ok", "fetchBacklogTasks", f.id)
                               EXCEPT !.rows = Len(rows),
                                      !.dropped = Len(c.tasks) - Len(filtered)]))

\* --------------------------------------------- fetchCollaborativeProjects
fetchCollaborativeProjects_entry(c) ==
  LET key == cacheKey("collaborations", "")
  IN  IF ~c.snap.user \/ c.snap.isLoading
      THEN Pop(Entered(c, "collaborations", "skip", "fetchCollaborativeProjects", "", FALSE))
      ELSE IF /\ ~shouldRefetch(c.snap.lastFetchTime, c.now, key, DefaultMaxAge)
              /\ Some(c.snap.projects, LAMBDA p : p.isCollaboration)
              /\ ~c.snap.fetchErrors[key]
           THEN Pop(Entered(c, "collaborations", "hit", "fetchCollaborativeProjects", "", FALSE))
           ELSE Goto(Entered(c, "collaborations", "issue", "fetchCollaborativeProjects", "",
                             FALSE), "read")

\* rows: the projects joined to the collaborators rows with user_id = user.id
fetchCollaborativeProjects_response(c, ok, rows) ==
  LET key == cacheKey("collaborations", "")
  IN  IF ~ok
      THEN LET c1 == markFetchError(Emit(c, Ev("fail", "fetchCollaborativeProjects", "")), key)
           IN  Pop(toast(c1, "toast.error", "Failed to load collaborative projects"))
      ELSE LET c0 == Emit(c, [Ev("ok", "fetchCollaborativeProjects", "")
                                EXCEPT !.rows = Len(rows)])
           IN  IF Len(rows) > 0
               THEN LET collaborativeProjects == MapSeq(rows, LAMBDA r : formatProject(r, TRUE))
                        nonCollabProjects == SelectSeq(c.projects, LAMBDA p : ~p.isCollaboration)
                        c1 == [c0 EXCEPT !.projects = nonCollabProjects \o collaborativeProjects]
                        c2 == updateFetchTime(c1, key)
                    IN  [c2 EXCEPT !.stack[1].pc = "loop",
                                   !.stack[1].todo =
                                      MapSeq(collaborativeProjects, LAMBDA x : x.id)]
               ELSE Pop(Emit(c0, Ev("return", "fetchCollaborativeProjects", "")))

fetchCollaborativeProjects_loop(c) ==
  LET f == Top(c)
  IN  IF f.todo = <<>>
      THEN Pop(Emit(c, Ev("return", "fetchCollaborativeProjects", "")))
      ELSE Call(c, "delay1", Frame("fetchSprints", Head(f.todo), FALSE))

\* ----------------------------------------------------- refreshProjectData
refreshProjectData_entry(c) ==
  LET f == Top(c)
  IN  IF ~c.snap.user
      THEN Pop(Emit(c, [Ev("skip", "refreshProjectData", f.id) EXCEPT !.authed = c.user]))
      ELSE IF f.id # ""
           THEN LET newFetchTime == [c.snap.lastFetchTime
                                       EXCEPT ![cacheKey("sprints", f.id)] = 0,
                                              ![cacheKey("backlog", f.id)] = 0]
                    c1 == [c EXCEPT !.lastFetchTime = newFetchTime, !.lftOwner = c.me,
                                    !.aliasReset = TRUE]
                IN  Call(Emit(c1, Ev("refresh", "refreshProjectData", f.id)),
                         "afterSprints", Frame("fetchSprints", f.id, TRUE))
           ELSE LET c1 == [c EXCEPT !.lastFetchTime = [k \in Keys |-> 0], !.lftOwner = ""]
                IN  Call(Emit(c1, Ev("refresh", "refreshProjectData", "")),
                         "afterProjects", Frame("fetchProjects", "", FALSE))

refreshProjectData_afterSprints(c) ==
  Call(c, "afterBacklog", Frame("fetchBacklogTasks", Top(c).id, TRUE))

refreshProjectData_afterBacklog(c) ==
  LET f == Top(c)
      projectSprints == SelectSeq(c.snap.sprints, LAMBDA s : s.projectId = f.id)
  IN  [c EXCEPT !.stack[1].pc = "loop",
                !.stack[1].todo = MapSeq(projectSprints, LAMBDA s : s.id)]

\* delete newFetchTime[sprintKey] writes into the object handed to setLastFetchTime:
\* it is seen by the live state while that object is still the state, and by every
\* render that captured it.
refreshProjectData_loop(c) ==
  LET f == Top(c)
  IN  IF f.todo = <<>>
      THEN Pop(Emit(toast(c, "toast.success", "Project data refreshed successfully"),
                    Ev("return", "refreshProjectData", f.id)))
      ELSE LET sprintKey == cacheKey("tasks-sprint", Head(f.todo))
               c1 == [c EXCEPT !.lastFetchTime[sprintKey] =
                                  IF c.lftOwner = c.me THEN 0 ELSE @,
                               !.aliasDeleted = @ \cup {sprintKey}]
           IN  Call(c1, "afterTask", Frame("fetchTasksBySprint", Head(f.todo), TRUE))

refreshProjectData_afterTask(c) ==
  [c EXCEPT !.stack[1].pc = "loop", !.stack[1].todo = Tail(@)]

refreshProjectData_afterProjects(c) ==
  Call(c, "afterCollab", Frame("fetchCollaborativeProjects", "", FALSE))

refreshProjectData_afterCollab(c) ==
  Pop(Emit(toast(c, "toast.success", "All data refreshed successfully"),
           Ev("return", "refreshProjectData", "")))

refreshProjectData_catch(c) ==
  Pop(toast([c EXCEPT !.exc = ""], "toast.error", "Failed to refresh project data"))

\* ------------------------------------------------------------- mutations
StepEv(c, kind) ==
  Emit(c, [Ev(kind, Top(c).fn, Top(c).id) EXCEPT !.pc = Top(c).pc])

\* throw before the try block: the function's own catch does not run
ThrowOut(c, err) == Throw(Pop(Emit(c, [Ev("noauth", Top(c).fn, Top(c).id) EXCEPT !.err = err])), err)

Return(c) == Pop(Emit(c, Ev("return", Top(c).fn, Top(c).id)))

\* --- addProject
addProject_entry(c) ==
  IF ~c.snap.user THEN ThrowOut(c, "User not authenticated")
  ELSE Goto(StepEv(c, "issue"), "insert")

\* data: the inserted row
addProject_response(c, ok, data) ==
  IF ~ok THEN Throw(StepEv(c, "fail"), "remote")
  ELSE LET newProject == formatProject(data, FALSE)
           c1 == [StepEv(c, "ok") EXCEPT
                    !.projects = Append(@, newProject),
                    !.burndownData = [k \in DOMAIN @ \cup {newProject.id} |->
                                        IF k = newProject.id
                                        THEN generateDefaultBurndownData(c.now)
                                        ELSE @[k]]]
       IN  Return(c1)

\* --- updateProject
updateProject_entry(c) ==
  IF ~c.snap.user THEN ThrowOut(c, "User not authenticated")
  ELSE Goto(StepEv(c, "issue"), "update")

\* { ...projects.find(...)!, ...project }: spreading a missing project gives no id,
\* and the map below then replaces nothing
updateProject_response(c, ok) ==
  LET f == Top(c)
  IN  IF ~ok THEN Throw(StepEv(c, "fail"), "remote")
      ELSE LET found == Some(c.snap.projects, LAMBDA p : p.id = f.id)
               base == Find(c.snap.projects, LAMBDA p : p.id = f.id)
               updatedProject == [base EXCEPT !.title = IF f.patch.title # NULL
                                                        THEN f.patch.title ELSE @]
               c1 == [StepEv(c, "ok") EXCEPT
                        !.projects = IF found
                                     THEN MapSeq(@, LAMBDA p : IF p.id = f.id
                                                               THEN updatedProject ELSE p)
                                     ELSE @]
           IN  Return(c1)

\* --- deleteSprint
deleteSprint_entry(c) ==
  LET f == Top(c)
  IN  IF ~c.snap.user THEN ThrowOut(c, "User not authenticated")
      ELSE LET known == Some(c.snap.sprints, LAMBDA s : s.id = f.id)
               projectId == IF known
                            THEN Find(c.snap.sprints, LAMBDA s : s.id = f.id).projectId
                            ELSE ""
           IN  Goto([StepEv(c, "issue") EXCEPT !.stack[1].pid = projectId], "colQuery")

\* a variant that goes on to the tasks without deleting the columns it found
deleteSprint_columns_skipsColumns(c, ok, columnsData) ==
  IF ~ok THEN Throw(StepEv(c, "fail"), "remote")
  ELSE [StepEv(c, "ok") EXCEPT !.stack[1].todo = columnsData, !.stack[1].pc = "tasksDelete"]

\* columnsData: the ids of the board_columns rows with sprint_id = id
deleteSprint_columns(c, ok, columnsData) ==
  IF ~ok THEN Throw(StepEv(c, "fail"), "remote")
  ELSE [StepEv(c, "ok") EXCEPT
          !.stack[1].todo = columnsData,
          !.stack[1].pc = IF Len(columnsData) > 0 THEN "colDelete" ELSE "tasksDelete"]

deleteSprint_columnDeleted(c, ok) ==
  IF ~ok THEN Throw(StepEv(c, "fail"), "remote")
  ELSE [StepEv(c, "ok") EXCEPT
          !.stack[1].todo = Tail(@),
          !.stack[1].pc = IF Len(Top(c).todo) > 1 THEN "colDelete" ELSE "tasksDelete"]

deleteSprint_tasksDeleted(c, ok) ==
  IF ~ok THEN Throw(StepEv(c, "fail"), "remote")
  ELSE Goto(StepEv(c, "ok"), "sprintDelete")

\* a variant that returns without refreshing the project
deleteSprint_sprintDeleted_noRefresh(c, ok) ==
  LET f == Top(c)
  IN  IF ~ok THEN Throw(StepEv(c, "fail"), "remote")
      ELSE LET c1 == [StepEv(c, "ok") EXCEPT
                        !.sprints = SelectSeq(@, LAMBDA s : s.id # f.id),
                        !.tasks = SelectSeq(@, LAMBDA t : t.sprintId # f.id)]
           IN  Return(toast(c1, "toast.success", "Sprint deleted successfully"))

deleteSprint_sprintDeleted(c, ok) ==
  LET f == Top(c)
  IN  IF ~ok THEN Throw(StepEv(c, "fail"), "remote")
      ELSE LET c1 == [StepEv(c, "ok") EXCEPT
                        !.sprints = SelectSeq(@, LAMBDA s : s.id # f.id),
                        !.tasks = SelectSeq(@, LAMBDA t : t.sprintId # f.id)]
               c2 == toast(c1, "toast.success", "Sprint deleted successfully")
           IN  IF f.pid # ""
               THEN Call(c2, "afterRefresh", Frame("refreshProjectData", f.pid, FALSE))
               ELSE Return(c2)

\* a variant that notifies and does not rethrow
deleteSprint_catch_swallows(c) ==
  Pop(toast([c EXCEPT !.exc = ""], "toast.error", "Failed to delete sprint"))

deleteSprint_catch(c) == Pop(toast(c, "toast.error", "Failed to delete sprint"))

\* --- deleteProject
deleteProject_entry(c) ==
  LET f == Top(c)
  IN  IF ~c.snap.user THEN ThrowOut(c, "User not authenticated")
      ELSE LET projectSprints == SelectSeq(c.snap.sprints, LAMBDA s : s.projectId = f.id)
               sprintIds == MapSeq(projectSprints, LAMBDA s : s.id)
           IN  [StepEv(c, "call") EXCEPT !.stack[1].todo = sprintIds,
                                         !.stack[1].ids = sprintIds,
                                         !.stack[1].pc = "loop"]

deleteProject_loop(c) ==
  LET f == Top(c)
  IN  IF f.todo = <<>>
      THEN Goto(StepEv(c, "issue"), "delBacklog")
      ELSE Call(c, "afterSprint", FrameP("deleteSprint", Head(f.todo), NoPatch))

deleteProject_afterSprint(c) ==
  [c EXCEPT !.stack[1].pc = "loop", !.stack[1].todo = Tail(@)]

deleteProject_backlogDeleted(c, ok) ==
  IF ~ok THEN Throw(StepEv(c, "fail"), "remote")
  ELSE Goto(StepEv(c, "ok"), "delProject")

\* a variant that leaves the project's tasks in the cache
deleteProject_projectDeleted_keepsTasks(c, ok) ==
  LET f == Top(c)
  IN  IF ~ok THEN Throw(StepEv(c, "fail"), "remote")
      ELSE LET c1 == [StepEv(c, "ok") EXCEPT
                        !.projects = SelectSeq(@, LAMBDA p : p.id # f.id),
                        !.sprints = SelectSeq(@, LAMBDA s : s.projectId # f.id),
                        !.burndownData = [k \in DOMAIN @ \ {f.id} |-> @[k]]]
           IN  Return(toast(c1, "toast.success", "Project deleted successfully"))

deleteProject_projectDeleted(c, ok) ==
  LET f == Top(c)
  IN  IF ~ok THEN Throw(StepEv(c, "fail"), "remote")
      ELSE LET c1 == [StepEv(c, "ok") EXCEPT
                        !.projects = SelectSeq(@, LAMBDA p : p.id # f.id),
                        !.sprints = SelectSeq(@, LAMBDA s : s.projectId # f.id),
                        !.tasks = SelectSeq(@, LAMBDA t : /\ t.sprintId \notin Range(f.ids)
                                                          /\ t.projectId # f.id),
                        !.burndownData = [k \in DOMAIN @ \ {f.id} |-> @[k]]]
           IN  Return(toast(c1, "toast.success", "Project deleted successfully"))

deleteProject_catch(c) == Pop(toast(c, "toast.error", "Failed to delete project"))

\* --- addSprint
addSprint_entry(c) ==
  IF ~c.snap.user THEN ThrowOut(c, "User not authenticated")
  ELSE Goto(StepEv(c, "issue"), "insert")

\* a variant that returns the new sprint without refreshing the project
addSprint_response_norefresh(c, ok, data) ==
  IF ~ok THEN Throw(StepEv(c, "fail"), "remote")
  ELSE LET newSprint == formatSprint(data)
       IN  Return([StepEv(c, "ok") EXCEPT !.sprints = Append(@, newSprint),
                                           !.stack[1].upd = newSprint])

\* upd: the value the call returns
addSprint_response(c, ok, data) ==
  IF ~ok THEN Throw(StepEv(c, "fail"), "remote")
  ELSE LET newSprint == formatSprint(data)
           c1 == [StepEv(c, "ok") EXCEPT !.sprints = Append(@, newSprint),
                                         !.stack[1].upd = newSprint]
       IN  Call(c1, "afterRefresh", Frame("refreshProjectData", Top(c).patch.projectId, FALSE))

\* --- updateSprint
updateSprint_entry(c) ==
  LET f == Top(c)
  IN  IF ~c.snap.user THEN ThrowOut(c, "User not authenticated")
      ELSE IF ~Some(c.snap.sprints, LAMBDA s : s.id = f.id)
           THEN Throw(StepEv(c, "notfound"), "Sprint not found")
           ELSE LET existingSprint == Find(c.snap.sprints, LAMBDA s : s.id = f.id)
                IN  Goto([StepEv(c, "issue") EXCEPT !.stack[1].was = existingSprint], "update")

\* a variant that refreshes after every successful update
updateSprint_response_always(c, ok) ==
  LET f == Top(c)
      existingSprint == f.was
      projectId == existingSprint.projectId
  IN  IF ~ok THEN Throw(StepEv(c, "fail"), "remote")
      ELSE LET updatedSprint == [existingSprint EXCEPT
                                   !.status = IF f.patch.status # NULL
                                              THEN f.patch.status ELSE @]
               c1 == [StepEv(c, "ok") EXCEPT
                        !.sprints = MapSeq(@, LAMBDA s : IF s.id = f.id THEN updatedSprint ELSE s)]
           IN  IF projectId # ""
               THEN Call(c1, "afterRefresh", Frame("refreshProjectData", projectId, FALSE))
               ELSE Return(c1)

updateSprint_response(c, ok) ==
  LET f == Top(c)
      existingSprint == f.was
      projectId == existingSprint.projectId
      isCompletingStatus == existingSprint.status # "completed" /\ f.patch.status = "completed"
  IN  IF ~ok THEN Throw(StepEv(c, "fail"), "remote")
      ELSE LET updatedSprint == [existingSprint EXCEPT
                                   !.status = IF f.patch.status # NULL
                                              THEN f.patch.status ELSE @]
               c1 == [StepEv(c, "ok") EXCEPT
                        !.sprints = MapSeq(@, LAMBDA s : IF s.id = f.id THEN updatedSprint ELSE s)]
           IN  IF isCompletingStatus /\ projectId # ""
               THEN Call(c1, "afterRefresh", Frame("refreshProjectData", projectId, FALSE))
               ELSE Return(c1)

\* --- addTask
\* a variant that does not look at the user
addTask_entry_unchecked(c) ==
  LET f == Top(c)
  IN  IF f.patch.projectId = NULL
      THEN Throw(StepEv(c, "invalid"), "Project ID is required")
      ELSE Goto(StepEv(c, "issue"), "insert")

addTask_entry(c) ==
  LET f == Top(c)
  IN  IF ~c.snap.user THEN ThrowOut(c, "User not authenticated")
      ELSE IF f.patch.projectId = NULL
           THEN Throw(StepEv(c, "invalid"), "Project ID is required")
           ELSE Goto(StepEv(c, "issue"), "insert")

addTask_response(c, ok, data) ==
  LET f == Top(c)
      isBacklogTask == f.patch.status = "backlog"
  IN  IF ~ok THEN Throw(StepEv(c, "fail"), "remote")
      ELSE LET newTask == formatTask(data)
               c1 == [StepEv(c, "ok") EXCEPT !.tasks = Append(@, newTask)]
           IN  IF isBacklogTask
               THEN Call(c1, "afterRefresh", Frame("fetchBacklogTasks", f.patch.projectId, TRUE))
               ELSE IF f.patch.sprintId \notin {NULL, ""}
                    THEN Call(c1, "afterRefresh",
                              Frame("fetchTasksBySprint", f.patch.sprintId, TRUE))
                    ELSE Return(c1)

\* --- updateTask
MergeTask(existingTask, task) ==
  [existingTask EXCEPT
     !.status = IF task.status # NULL THEN task.status ELSE @,
     !.sprintId = IF task.sprintId # NULL THEN task.sprintId ELSE @,
     !.completionDate = IF task.hasCompletionDate THEN task.completionDate ELSE @]

updateTask_entry(c) ==
  LET f == Top(c)
  IN  IF ~c.snap.user THEN ThrowOut(c, "User not authenticated")
      ELSE IF ~Some(c.snap.tasks, LAMBDA t : t.id = f.id)
           THEN Throw(StepEv(c, "notfound"), "Task not found")
           ELSE LET existingTask == Find(c.snap.tasks, LAMBDA t : t.id = f.id)
                IN  Goto([StepEv(c, "issue") EXCEPT !.stack[1].was = existingTask], "update")

updateTask_finish(c) ==
  LET f == Top(c)
      existingTask == f.was
      task == f.patch
      updatedTask == f.upd
      c1 == [c EXCEPT !.tasks = MapSeq(@, LAMBDA t : IF t.id = f.id THEN updatedTask ELSE t)]
      movedToBacklog == task.status = "backlog" /\ existingTask.status # "backlog"
      movedFromBacklog == task.status # "backlog" /\ existingTask.status = "backlog"
      sprintChanged == task.sprintId # NULL /\ task.sprintId # existingTask.sprintId
  IN  IF (sprintChanged \/ movedToBacklog \/ movedFromBacklog) /\ existingTask.projectId # ""
      THEN IF existingTask.sprintId # ""
           THEN Call(c1, "afterOld", Frame("fetchTasksBySprint", existingTask.sprintId, TRUE))
           ELSE Goto(c1, "afterOld")
      ELSE Return(c1)

updateTask_response(c, ok) ==
  LET f == Top(c)
      existingTask == f.was
      task == f.patch
  IN  IF ~ok THEN Throw(StepEv(c, "fail"), "remote")
      ELSE LET merged == MergeTask(existingTask, task)
               kept == IF ~task.hasCompletionDate /\ existingTask.completionDate # NoDate
                       THEN [merged EXCEPT !.completionDate = existingTask.completionDate]
                       ELSE merged
               c1 == StepEv(c, "ok")
           IN  IF /\ task.status = "done"
                  /\ existingTask.status # "done"
                  /\ kept.completionDate = NoDate
               THEN LET today == toISODate(c.now)
                    IN  [c1 EXCEPT !.stack[1].upd = [kept EXCEPT !.completionDate = today],
                                   !.stack[1].pc = "stamp"]
               ELSE updateTask_finish([c1 EXCEPT !.stack[1].upd = kept])

\* the result of the second update is not looked at
updateTask_stamped(c, ok) ==
  updateTask_finish(StepEv(c, IF ok THEN "ok" ELSE "fail"))

updateTask_afterOld(c) ==
  LET f == Top(c)
  IN  IF f.patch.sprintId \notin {NULL, ""}
      THEN Call(c, "afterNew", Frame("fetchTasksBySprint", f.patch.sprintId, TRUE))
      ELSE Goto(c, "afterNew")

updateTask_afterNew(c) ==
  Call(c, "afterRefresh", Frame("fetchBacklogTasks", Top(c).was.projectId, TRUE))

\* --- deleteTask
\* a variant that does not look the task up before the remote delete
deleteTask_entry_unchecked(c) ==
  IF ~c.snap.user THEN ThrowOut(c, "User not authenticated")
  ELSE Goto(StepEv(c, "issue"), "delete")

deleteTask_entry(c) ==
  LET f == Top(c)
  IN  IF ~c.snap.user THEN ThrowOut(c, "User not authenticated")
      ELSE IF ~Some(c.snap.tasks, LAMBDA t : t.id = f.id)
           THEN Throw(StepEv(c, "notfound"), "Task not found")
           ELSE LET taskToDelete == Find(c.snap.tasks, LAMBDA t : t.id = f.id)
                IN  Goto([StepEv(c, "issue") EXCEPT !.stack[1].was = taskToDelete], "delete")

deleteTask_response(c, ok) ==
  LET f == Top(c)
      taskToDelete == f.was
  IN  IF ~ok THEN Throw(StepEv(c, "fail"), "remote")
      ELSE LET c1 == [StepEv(c, "ok") EXCEPT !.tasks = SelectSeq(@, LAMBDA t : t.id # f.id)]
           IN  IF taskToDelete.sprintId # ""
               THEN Call(c1, "afterRefresh",
                         Frame("fetchTasksBySprint", taskToDelete.sprintId, TRUE))
               ELSE IF taskToDelete.projectId # ""
                    THEN Call(c1, "afterRefresh",
                              Frame("fetchBacklogTasks", taskToDelete.projectId, TRUE))
                    ELSE Return(c1)

\* catch (error) { console.error(...); throw error; }
rethrow(c) == Pop(c)

\* ------------------------------------------------- running a logical task
Unwind(c) ==
  LET fn == Top(c).fn
  IN  CASE fn = "deleteSprint" -> deleteSprint_catch(c)
        [] fn = "deleteProject" -> deleteProject_catch(c)
        [] fn = "refreshProjectData" -> refreshProjectData_catch(c)
        [] OTHER -> rethrow(c)

Step(c) ==
  LET f == Top(c)
      at == <<f.fn, f.pc>>
  IN  IF c.exc # "" THEN Unwind(c)
      ELSE CASE at = <<"fetchProjects", "entry">> -> fetchProjects_entry(c)
             [] at = <<"fetchProjects", "loop">> -> fetchProjects_loop(c)
             [] at = <<"fetchCollaborativeProjects", "entry">> -> fetchCollaborativeProjects_entry(c)
             [] at = <<"fetchCollaborativeProjects", "loop">> -> fetchCollaborativeProjects_loop(c)
             [] at = <<"fetchSprints", "entry">> -> fetchSprints_entry(c)
             [] at = <<"fetchSprints", "loop">> -> fetchSprints_loop(c)
             [] at = <<"fetchTasksBySprint", "entry">> -> fetchTasksBySprint_entry(c)
             [] at = <<"fetchBacklogTasks", "entry">> -> fetchBacklogTasks_entry(c)
             [] at = <<"refreshProjectData", "entry">> -> refreshProjectData_entry(c)
             [] at = <<"refreshProjectData", "afterSprints">> -> refreshProjectData_afterSprints(c)
             [] at = <<"refreshProjectData", "afterBacklog">> -> refreshProjectData_afterBacklog(c)
             [] at = <<"refreshProjectData", "loop">> -> refreshProjectData_loop(c)
             [] at = <<"refreshProjectData", "afterTask">> -> refreshProjectData_afterTask(c)
             [] at = <<"refreshProjectData", "afterProjects">> -> refreshProjectData_afterProjects(c)
             [] at = <<"refreshProjectData", "afterCollab">> -> refreshProjectData_afterCollab(c)
             [] at = <<"addProject", "entry">> -> addProject_entry(c)
             [] at = <<"updateProject", "entry">> -> updateProject_entry(c)
             [] at = <<"deleteProject", "entry">> -> deleteProject_entry(c)
             [] at = <<"deleteProject", "loop">> -> deleteProject_loop(c)
             [] at = <<"deleteProject", "afterSprint">> -> deleteProject_afterSprint(c)
             [] at = <<"addSprint", "entry">> -> addSprint_entry(c)
             [] at = <<"updateSprint", "entry">> -> updateSprint_entry(c)
             [] at = <<"deleteSprint", "entry">> -> deleteSprint_entry(c)
             [] at = <<"addTask", "entry">> -> addTask_entry(c)
             [] at = <<"updateTask", "entry">> -> updateTask_entry(c)
             [] at = <<"updateTask", "afterOld">> -> updateTask_afterOld(c)
             [] at = <<"updateTask", "afterNew">> -> updateTask_afterNew(c)
             [] at = <<"deleteTask", "entry">> -> deleteTask_entry(c)
             [] f.pc = "afterRefresh" -> Return(c)

\* the world k after the synchronous part of the task has run: up to its next await
\* or to its end (k ranges over the one world it is given, which is computed once)
RECURSIVE Run(_)
Run(c) ==
  CHOOSE r \in {IF k.stack = <<>>
                THEN IF k.exc # ""
                     THEN Emit(k, [Ev("raise", k.op.fn, k.op.id) EXCEPT !.err = k.exc])
                     ELSE Emit(k, Ev("done", k.op.fn, k.op.id))
                ELSE IF k.exc = "" /\ Top(k).pc \in AwaitPcs
                     THEN k
                     ELSE Run(Step(k)) : k \in {c}} : TRUE

\* A render that captured another task's newFetchTime object sees its later deletes.
Aliased(pr, c) ==
  IF pr.snap.lftAlias = c.me
  THEN [pr EXCEPT !.snap.lastFetchTime = [k \in Keys |-> IF k \in c.aliasDeleted THEN 0 ELSE @[k]],
                  !.snap.lftAlias = IF c.aliasReset THEN "" ELSE @]
  ELSE pr

ProcOf(c) ==
  IF c.stack = <<>> THEN Idle
  ELSE [stack |-> c.stack, snap |-> c.snap, toasts |-> c.toasts, op |-> c.op,
        failed |-> c.failed]

Commit(p, c) ==
  \E k \in {c} :
    /\ isLoading' = k.isLoading
    /\ projects' = k.projects
    /\ sprints' = k.sprints
    /\ tasks' = k.tasks
    /\ burndownData' = k.burndownData
    /\ lastFetchTime' = k.lastFetchTime
    /\ fetchErrors' = k.fetchErrors
    /\ lftOwner' = k.lftOwner
    /\ procs' = [q \in Procs |-> IF q = p THEN ProcOf(k) ELSE Aliased(procs[q], k)]
    /\ trace' = k.trace
    /\ UNCHANGED <<user, now, chartVars>>

\* the outcome of a remote call
Outcome(ok) ==
  IF ok THEN UNCHANGED failures
  ELSE failures < MaxFailures /\ failures' = failures + 1

Resume(p, c) == Commit(p, c) /\ UNCHANGED calls

At(p, fn, pc) ==
  /\ procs[p].stack # <<>>
  /\ Head(procs[p].stack).fn = fn
  /\ Head(procs[p].stack).pc = pc

W(p) == World(p, procs[p])

Arg(p) == Head(procs[p].stack)

\* A call from the UI: the closures are those of the current render.
Start(p, f) ==
  /\ procs[p] = Idle
  /\ calls < MaxCalls
  /\ calls' = calls + 1
  /\ UNCHANGED failures
  /\ Commit(p, Run(World(p, [stack |-> <<f>>, snap |-> Render, toasts |-> <<>>,
                              op |-> [fn |-> f.fn, id |-> f.id], failed |-> FALSE])))
  /\ UNCHANGED remoteVars

\* ------------------------------------------------------ the remote store
Titles == {"A", "B"}

selectSprints(projectId) == RowsOf({r \in rSprints : r.project_id = projectId}, SprintOrder)

selectTasksBySprint(sprintId) == RowsOf({r \in rTasks : r.sprint_id = sprintId}, TaskOrder)

selectBacklog(projectId) ==
  RowsOf({r \in rTasks : r.sprint_id = NULL /\ r.project_id = projectId /\ r.status = "backlog"},
         TaskOrder)

selectColumns(sprintId) ==
  MapSeq(RowsOf({r \in rColumns : r.sprint_id = sprintId}, ColumnOrder), LAMBDA r : r.id)

\* a primary key the store has never handed out
NewId(order) == Head(SelectSeq(order, LAMBDA x : x \notin issued))

HasNewId(order) == \E i \in 1..Len(order) : order[i] \notin issued

\* ------------------------------------------------------- fetch responses
FetchProjectsResponse(p, Oks) ==
  /\ At(p, "fetchProjects", "read")
  /\ \E ok \in Oks :
       /\ Outcome(ok)
       /\ Resume(p, Run(fetchProjects_response(W(p), ok, RowsOf(rProjects, ProjectOrder))))
  /\ UNCHANGED remoteVars

FetchCollaborativeProjectsResponse(p, Oks) ==
  /\ At(p, "fetchCollaborativeProjects", "read")
  /\ \E ok \in Oks :
       /\ Outcome(ok)
       /\ Resume(p, Run(fetchCollaborativeProjects_response(W(p), ok,
                                                          RowsOf(rCollab, ProjectOrder))))
  /\ UNCHANGED remoteVars

FetchSprintsResponse(p, Oks) ==
  /\ At(p, "fetchSprints", "read")
  /\ \E ok \in Oks :
       /\ Outcome(ok)
       /\ Resume(p, Run(fetchSprints_response(W(p), ok, selectSprints(Arg(p).id))))
  /\ UNCHANGED remoteVars

FetchTasksBySprintResponse(p, Oks) ==
  /\ At(p, "fetchTasksBySprint", "read")
  /\ \E ok \in Oks :
       /\ Outcome(ok)
       /\ Resume(p, Run(fetchTasksBySprint_response(W(p), ok, selectTasksBySprint(Arg(p).id))))
  /\ UNCHANGED remoteVars

FetchBacklogTasksResponse(p, Oks) ==
  /\ At(p, "fetchBacklogTasks", "read")
  /\ \E ok \in Oks :
       /\ Outcome(ok)
       /\ Resume(p, Run(fetchBacklogTasks_response(W(p), ok, selectBacklog(Arg(p).id))))
  /\ UNCHANGED remoteVars

\* await delay(500) / await delay(300)
DelayElapsed(p) ==
  /\ procs[p].stack # <<>>
  /\ Arg(p).pc \in {"delay", "delay1", "delay2"}
  /\ UNCHANGED failures
  /\ Resume(p, Run(CASE Arg(p).pc = "delay" -> fetchSprints_afterDelay(W(p))
                     [] Arg(p).pc = "delay1" -> fetchProjects_afterDelay1(W(p))
                     [] Arg(p).pc = "delay2" -> fetchProjects_afterDelay2(W(p))))
  /\ UNCHANGED remoteVars

\* ------------------------------------------------------------- UI calls
CallRefreshProjectData(p, Ids) ==
  \E id \in Ids : Start(p, Frame("refreshProjectData", id, FALSE))

CallFetchCollaborativeProjects(p) == Start(p, Frame("fetchCollaborativeProjects", "", FALSE))

\* the fetch operations, as the provider's own functions and effects call them
CallFetchProjects(p) == Start(p, Frame("fetchProjects", "", FALSE))

CallFetchSprints(p, Ids) ==
  \E id \in Ids, forceRefresh \in BOOLEAN : Start(p, Frame("fetchSprints", id, forceRefresh))

CallFetchTasksBySprint(p, Ids) ==
  \E id \in Ids, forceRefresh \in BOOLEAN :
    Start(p, Frame("fetchTasksBySprint", id, forceRefresh))

CallFetchBacklogTasks(p, Ids) ==
  \E id \in Ids, forceRefresh \in BOOLEAN :
    Start(p, Frame("fetchBacklogTasks", id, forceRefresh))

\* ---------------------------------------------------------- environment
\* useEffect([user]) with a user: fetchProjects(); fetchCollaborativeProjects();
\* both are the closures of the render that saw the new user
Login ==
  /\ ~user
  /\ \A p \in Procs : procs[p] = Idle
  /\ LET render == [Render EXCEPT !.user = TRUE]
         ca == Run([World("a", [stack |-> <<Frame("fetchProjects", "", FALSE)>>,
                                snap |-> render, toasts |-> <<>>,
                                op |-> [fn |-> "fetchProjects", id |-> ""],
                                failed |-> FALSE])
                      EXCEPT !.user = TRUE])
         cb == Run([ca EXCEPT !.me = "b",
                              !.stack = <<Frame("fetchCollaborativeProjects", "", FALSE)>>,
                              !.snap = render, !.toasts = <<>>, !.failed = FALSE,
                              !.op = [fn |-> "fetchCollaborativeProjects", id |-> ""]])
     IN  /\ user' = TRUE
         /\ isLoading' = cb.isLoading
         /\ projects' = cb.projects
         /\ sprints' = cb.sprints
         /\ tasks' = cb.tasks
         /\ burndownData' = cb.burndownData
         /\ lastFetchTime' = cb.lastFetchTime
         /\ fetchErrors' = cb.fetchErrors
         /\ lftOwner' = cb.lftOwner
         /\ procs' = [q \in Procs |-> IF q = "a" THEN ProcOf(ca) ELSE ProcOf(cb)]
         /\ trace' = cb.trace
  /\ UNCHANGED <<now, remoteVars, calls, failures, chartVars>>

\* useEffect([user]) without a user
Logout ==
  /\ user
  /\ user' = FALSE
  /\ projects' = <<>>
  /\ sprints' = <<>>
  /\ tasks' = <<>>
  /\ burndownData' = <<>>
  /\ trace' = <<Ev("logout", "", "")>>
  /\ UNCHANGED <<isLoading, lastFetchTime, fetchErrors, lftOwner, now, procs, remoteVars, calls,
                 failures, chartVars>>

Tick ==
  /\ \A p \in Procs : procs[p] = Idle
  /\ (now % DayMs) + TickMs <= (StartNow % DayMs) + MaxTicks * TickMs
  /\ now' = now + TickMs
  /\ trace' = <<>>
  /\ UNCHANGED <<user, isLoading, cacheVars, freshVars, procs, remoteVars, calls, failures,
                 chartVars>>

\* midnight passes, between two operations
NextDay ==
  /\ \A p \in Procs : procs[p] = Idle
  /\ toISODate(now) < toISODate(StartNow) + MaxDays
  /\ now' = now + DayMs
  /\ trace' = <<>>
  /\ UNCHANGED <<user, isLoading, cacheVars, freshVars, procs, remoteVars, calls, failures,
                 chartVars>>

\* another session of a collaborator deletes a sprint with its columns and tasks
OtherSessionDeletesSprint ==
  /\ \E s \in rSprints :
       /\ rSprints' = rSprints \ {s}
       /\ rTasks' = {t \in rTasks : t.sprint_id # s.id}
       /\ rColumns' = {k \in rColumns : k.sprint_id # s.id}
  /\ trace' = <<>>
  /\ UNCHANGED <<user, isLoading, cacheVars, freshVars, now, procs, rProjects, rCollab, issued,
                 calls, failures, chartVars>>

\* --------------------------------------------------------------- initially
SeedProjects == {[id |-> "p1", title |-> "A"]}
SeedCollab == {[id |-> "p2", title |-> "A"]}
SeedSprints == {[id |-> "s1", project_id |-> "p1", status |-> "planned"],
                [id |-> "s2", project_id |-> "p2", status |-> "planned"]}
SeedTasks == {[id |-> "t1", sprint_id |-> "s1", project_id |-> "p1", status |-> "todo",
               completion_date |-> NoDate, user_id |-> Me],
              [id |-> "t2", sprint_id |-> NULL, project_id |-> "p1", status |-> "backlog",
               completion_date |-> NoDate, user_id |-> Me]}
SeedColumns == {[id |-> "c1", sprint_id |-> "s1"], [id |-> "c2", sprint_id |-> "s1"]}

IdsOf(table) == {r.id : r \in table}

\* BurndownChart before its first effect has run
InitComponent ==
  /\ chartIsLoading = TRUE
  /\ isUpdating = FALSE
  /\ lastTasksLength = 0
  /\ lastSprintsLength = 0
  /\ dataFetchedRef = FALSE
  /\ loadingTimeoutRef = FALSE
  /\ loads = <<>>
  /\ updates = <<>>
  /\ rBurndown = <<>>

InitLocal ==
  /\ InitComponent
  /\ user = FALSE
  /\ isLoading = FALSE
  /\ projects = <<>>
  /\ sprints = <<>>
  /\ tasks = <<>>
  /\ burndownData = <<>>
  /\ lastFetchTime = [k \in Keys |-> 0]
  /\ fetchErrors = [k \in Keys |-> FALSE]
  /\ lftOwner = ""
  /\ now = StartNow
  /\ procs = [p \in Procs |-> Idle]
  /\ calls = 0
  /\ failures = 0
  /\ trace = <<>>
  /\ chartData = <<>>
  /\ zone = 0

InitFetch ==
  /\ InitLocal
  /\ rProjects = SeedProjects
  /\ rCollab = {}
  /\ rSprints = {r \in SeedSprints : r.project_id = "p1"}
  /\ rTasks = {}
  /\ rColumns = {}
  /\ issued = IdsOf(rProjects) \cup IdsOf(rSprints)

NextFetch ==
  \/ Login
  \/ Tick
  \/ (user /\ CallRefreshProjectData("a", {""}))
  \/ (user /\ CallRefreshProjectData("b", {"p1"}))
  \/ \E p \in Procs :
       \/ FetchProjectsResponse(p, BOOLEAN)
       \/ FetchCollaborativeProjectsResponse(p, BOOLEAN)
       \/ FetchSprintsResponse(p, BOOLEAN)
       \/ FetchTasksBySprintResponse(p, BOOLEAN)
       \/ FetchBacklogTasksResponse(p, BOOLEAN)
       \/ DelayElapsed(p)

SpecFetch == InitFetch /\ [][NextFetch]_vars

\* ---------------------------------------------------- mutation responses
CallAddProject(p) == Start(p, FrameP("addProject", "", [NoPatch EXCEPT !.title = "A"]))

AddProjectResponse(p, Oks) ==
  /\ At(p, "addProject", "insert")
  /\ \E ok \in Oks :
       /\ Outcome(ok)
       /\ ok => HasNewId(ProjectOrder)
       /\ LET data == [id |-> IF ok THEN NewId(ProjectOrder) ELSE "", title |-> Arg(p).patch.title]
          IN  /\ Resume(p, Run(addProject_response(W(p), ok, data)))
              /\ rProjects' = IF ok THEN rProjects \cup {data} ELSE rProjects
              /\ issued' = IF ok THEN issued \cup {data.id} ELSE issued
  /\ UNCHANGED <<rCollab, rSprints, rTasks, rColumns>>

CallUpdateProject(p, Ids) ==
  \E id \in Ids, title \in Titles :
    Start(p, FrameP("updateProject", id, [NoPatch EXCEPT !.title = title]))

\* update ... .eq('id', id).eq('owner_id', user.id)
UpdateProjectResponse(p, Oks) ==
  /\ At(p, "updateProject", "update")
  /\ \E ok \in Oks :
       /\ Outcome(ok)
       /\ Resume(p, Run(updateProject_response(W(p), ok)))
       /\ rProjects' = IF ok
                       THEN {IF r.id = Arg(p).id THEN [r EXCEPT !.title = Arg(p).patch.title]
                             ELSE r : r \in rProjects}
                       ELSE rProjects
  /\ UNCHANGED <<rCollab, rSprints, rTasks, rColumns, issued>>

CallDeleteProject(p, Ids) == \E id \in Ids : Start(p, Frame("deleteProject", id, FALSE))

\* delete from tasks where sprint_id is null and project_id = id
DeleteProjectBacklogResponse(p, Oks) ==
  /\ At(p, "deleteProject", "delBacklog")
  /\ \E ok \in Oks :
       /\ Outcome(ok)
       /\ Resume(p, Run(deleteProject_backlogDeleted(W(p), ok)))
       /\ rTasks' = IF ok
                    THEN {r \in rTasks : ~(r.sprint_id = NULL /\ r.project_id = Arg(p).id)}
                    ELSE rTasks
  /\ UNCHANGED <<rProjects, rCollab, rSprints, rColumns, issued>>

\* delete from projects where id = id and owner_id = user.id
DeleteProjectRowResponse(p, Oks) ==
  /\ At(p, "deleteProject", "delProject")
  /\ \E ok \in Oks :
       /\ Outcome(ok)
       /\ Resume(p, Run(deleteProject_projectDeleted(W(p), ok)))
       /\ rProjects' = IF ok THEN {r \in rProjects : r.id # Arg(p).id} ELSE rProjects
  /\ UNCHANGED <<rCollab, rSprints, rTasks, rColumns, issued>>

CallAddSprint(p, Ids) ==
  \E pid \in Ids :
    Start(p, FrameP("addSprint", "", [NoPatch EXCEPT !.projectId = pid, !.status = "planned"]))

AddSprintResponse(p, Oks) ==
  /\ At(p, "addSprint", "insert")
  /\ \E ok \in Oks :
       /\ Outcome(ok)
       /\ ok => HasNewId(SprintOrder)
       /\ LET data == [id |-> IF ok THEN NewId(SprintOrder) ELSE "",
                       project_id |-> Arg(p).patch.projectId, status |-> Arg(p).patch.status]
          IN  /\ Resume(p, Run(addSprint_response(W(p), ok, data)))
              /\ rSprints' = IF ok THEN rSprints \cup {data} ELSE rSprints
              /\ issued' = IF ok THEN issued \cup {data.id} ELSE issued
  /\ UNCHANGED <<rProjects, rCollab, rTasks, rColumns>>

CallUpdateSprint(p, Ids) ==
  \E id \in Ids, st \in SprintStatuses :
    Start(p, FrameP("updateSprint", id, [NoPatch EXCEPT !.status = st]))

UpdateSprintResponse(p, Oks) ==
  /\ At(p, "updateSprint", "update")
  /\ \E ok \in Oks :
       /\ Outcome(ok)
       /\ Resume(p, Run(updateSprint_response(W(p), ok)))
       /\ rSprints' = IF ok
                      THEN {IF r.id = Arg(p).id /\ Arg(p).patch.status # NULL
                            THEN [r EXCEPT !.status = Arg(p).patch.status]
                            ELSE r : r \in rSprints}
                      ELSE rSprints
  /\ UNCHANGED <<rProjects, rCollab, rTasks, rColumns, issued>>

CallDeleteSprint(p, Ids) == \E id \in Ids : Start(p, Frame("deleteSprint", id, FALSE))

\* select id from board_columns where sprint_id = id
DeleteSprintColumnsQueryResponse(p, Oks) ==
  /\ At(p, "deleteSprint", "colQuery")
  /\ \E ok \in Oks :
       /\ Outcome(ok)
       /\ Resume(p, Run(deleteSprint_columns(W(p), ok, selectColumns(Arg(p).id))))
  /\ UNCHANGED remoteVars

\* delete from board_columns where id = column.id
DeleteSprintColumnResponse(p, Oks) ==
  /\ At(p, "deleteSprint", "colDelete")
  /\ \E ok \in Oks :
       /\ Outcome(ok)
       /\ Resume(p, Run(deleteSprint_columnDeleted(W(p), ok)))
       /\ rColumns' = IF ok THEN {r \in rColumns : r.id # Head(Arg(p).todo)} ELSE rColumns
  /\ UNCHANGED <<rProjects, rCollab, rSprints, rTasks, issued>>

\* delete from tasks where sprint_id = id
DeleteSprintTasksResponse(p, Oks) ==
  /\ At(p, "deleteSprint", "tasksDelete")
  /\ \E ok \in Oks :
       /\ Outcome(ok)
       /\ Resume(p, Run(deleteSprint_tasksDeleted(W(p), ok)))
       /\ rTasks' = IF ok THEN {r \in rTasks : r.sprint_id # Arg(p).id} ELSE rTasks
  /\ UNCHANGED <<rProjects, rCollab, rSprints, rColumns, issued>>

\* delete from sprints where id = id
DeleteSprintRowResponse(p, Oks) ==
  /\ At(p, "deleteSprint", "sprintDelete")
  /\ \E ok \in Oks :
       /\ Outcome(ok)
       /\ Resume(p, Run(deleteSprint_sprintDeleted(W(p), ok)))
       /\ rSprints' = IF ok THEN {r \in rSprints : r.id # Arg(p).id} ELSE rSprints
  /\ UNCHANGED <<rProjects, rCollab, rTasks, rColumns, issued>>

CallAddTask(p, Inputs) ==
  \E task \in Inputs : Start(p, FrameP("addTask", "", task))

\* sprint_id: isBacklogTask ? null : task.sprintId
AddTaskResponse(p, Oks) ==
  /\ At(p, "addTask", "insert")
  /\ \E ok \in Oks :
       /\ Outcome(ok)
       /\ ok => HasNewId(TaskOrder)
       /\ LET task == Arg(p).patch
              data == [id |-> IF ok THEN NewId(TaskOrder) ELSE "",
                       sprint_id |-> IF task.status = "backlog" THEN NULL ELSE task.sprintId,
                       project_id |-> task.projectId,
                       status |-> task.status,
                       completion_date |-> NoDate,
                       user_id |-> Me]
          IN  /\ Resume(p, Run(addTask_response(W(p), ok, data)))
              /\ rTasks' = IF ok THEN rTasks \cup {data} ELSE rTasks
              /\ issued' = IF ok THEN issued \cup {data.id} ELSE issued
  /\ UNCHANGED <<rProjects, rCollab, rSprints, rColumns>>

CallUpdateTask(p, Ids, Patches) ==
  \E id \in Ids, task \in Patches : Start(p, FrameP("updateTask", id, task))

\* updateData: status (and completion_date when the key is passed); no sprint_id
UpdateTaskResponse(p, Oks) ==
  /\ At(p, "updateTask", "update")
  /\ \E ok \in Oks :
       /\ Outcome(ok)
       /\ Resume(p, Run(updateTask_response(W(p), ok)))
       /\ LET task == Arg(p).patch
          IN  rTasks' = IF ok
                        THEN {IF r.id = Arg(p).id
                              THEN [r EXCEPT
                                      !.status = IF task.status # NULL THEN task.status ELSE @,
                                      !.completion_date = IF task.hasCompletionDate
                                                          THEN task.completionDate ELSE @]
                              ELSE r : r \in rTasks}
                        ELSE rTasks
  /\ UNCHANGED <<rProjects, rCollab, rSprints, rColumns, issued>>

\* update tasks set completion_date = today where id = id
UpdateTaskStampResponse(p, Oks) ==
  /\ At(p, "updateTask", "stamp")
  /\ \E ok \in Oks :
       /\ Outcome(ok)
       /\ Resume(p, Run(updateTask_stamped(W(p), ok)))
       /\ rTasks' = IF ok
                    THEN {IF r.id = Arg(p).id
                          THEN [r EXCEPT !.completion_date = Arg(p).upd.completionDate]
                          ELSE r : r \in rTasks}
                    ELSE rTasks
  /\ UNCHANGED <<rProjects, rCollab, rSprints, rColumns, issued>>

CallDeleteTask(p, Ids) == \E id \in Ids : Start(p, Frame("deleteTask", id, FALSE))

\* delete from tasks where id = id and user_id = user.id
DeleteTaskResponse(p, Oks) ==
  /\ At(p, "deleteTask", "delete")
  /\ \E ok \in Oks :
       /\ Outcome(ok)
       /\ Resume(p, Run(deleteTask_response(W(p), ok)))
       /\ rTasks' = IF ok
                    THEN {r \in rTasks : ~(r.id = Arg(p).id /\ r.user_id = Me)}
                    ELSE rTasks
  /\ UNCHANGED <<rProjects, rCollab, rSprints, rColumns, issued>>

\* deleting projects and sprints, one call at a time
InitDelete ==
  /\ InitLocal
  /\ rProjects = SeedProjects \cup SeedCollab
  /\ rCollab = {}
  /\ rSprints = SeedSprints
  /\ rTasks = SeedTasks
  /\ rColumns = SeedColumns
  /\ issued = IdsOf(rProjects) \cup IdsOf(rSprints) \cup IdsOf(rTasks) \cup IdsOf(rColumns)

NextDelete ==
  \/ Login
  \/ (user /\ CallAddProject("a"))
  \/ (user /\ CallDeleteProject("a", ProjectIds))
  \/ (user /\ CallDeleteSprint("a", SprintIds))
  \/ \E p \in Procs :
       \/ AddProjectResponse(p, {TRUE})
       \/ FetchProjectsResponse(p, BOOLEAN)
       \/ FetchCollaborativeProjectsResponse(p, {TRUE})
       \/ FetchSprintsResponse(p, BOOLEAN)
       \/ FetchTasksBySprintResponse(p, BOOLEAN)
       \/ FetchBacklogTasksResponse(p, BOOLEAN)
       \/ DelayElapsed(p)
       \/ DeleteSprintColumnsQueryResponse(p, BOOLEAN)
       \/ DeleteSprintColumnResponse(p, BOOLEAN)
       \/ DeleteSprintTasksResponse(p, BOOLEAN)
       \/ DeleteSprintRowResponse(p, BOOLEAN)
       \/ DeleteProjectBacklogResponse(p, BOOLEAN)
       \/ DeleteProjectRowResponse(p, BOOLEAN)

SpecDelete == InitDelete /\ [][NextDelete]_vars

\* ------------------------------------------ refetching a project's scope
\* two projects with a sprint each; sprints may vanish remotely between fetches
NextScope ==
  \/ Login
  \/ OtherSessionDeletesSprint
  \/ (user /\ CallRefreshProjectData("a", {"p1", "p2"}))
  \/ \E p \in Procs :
       \/ FetchProjectsResponse(p, BOOLEAN)
       \/ FetchCollaborativeProjectsResponse(p, BOOLEAN)
       \/ FetchSprintsResponse(p, BOOLEAN)
       \/ FetchTasksBySprintResponse(p, BOOLEAN)
       \/ FetchBacklogTasksResponse(p, BOOLEAN)
       \/ DelayElapsed(p)

SpecScope == InitDelete /\ [][NextScope]_vars

\* --------------------------------------------- updating a task's status
InitTask ==
  /\ InitLocal
  /\ rProjects = SeedProjects
  /\ rCollab = {}
  /\ rSprints = {r \in SeedSprints : r.project_id = "p1"}
  /\ rTasks = SeedTasks
  /\ rColumns = {}
  /\ issued = IdsOf(rProjects) \cup IdsOf(rSprints) \cup IdsOf(rTasks)

\* updates that pass a status and nothing else
StatusPatches == {[NoPatch EXCEPT !.status = st] : st \in {"todo", "done", "backlog"}}

NextTask ==
  \/ Login
  \/ NextDay
  \/ (user /\ CallUpdateTask("a", {"t1"}, StatusPatches))
  \/ \E p \in Procs :
       \/ UpdateTaskResponse(p, BOOLEAN)
       \/ UpdateTaskStampResponse(p, BOOLEAN)
       \/ FetchProjectsResponse(p, {TRUE})
       \/ FetchCollaborativeProjectsResponse(p, {TRUE})
       \/ FetchSprintsResponse(p, {TRUE})
       \/ FetchTasksBySprintResponse(p, {TRUE})
       \/ FetchBacklogTasksResponse(p, {TRUE})
       \/ DelayElapsed(p)

SpecTask == InitTask /\ [][NextTask]_vars

\* ------------------------------------------------ calls without a user
OnePatch == {[NoPatch EXCEPT !.projectId = "p1", !.status = "todo", !.sprintId = "s1"]}

NextAuth ==
  \/ Login
  \/ Logout
  \/ (~user /\ CallFetchProjects("a"))
  \/ (~user /\ CallFetchCollaborativeProjects("a"))
  \/ (~user /\ CallFetchSprints("a", {"p1"}))
  \/ (~user /\ CallFetchTasksBySprint("a", {"s1"}))
  \/ (~user /\ CallFetchBacklogTasks("a", {"p1"}))
  \/ (~user /\ CallRefreshProjectData("a", {"", "p1"}))
  \/ (~user /\ CallAddProject("a"))
  \/ (~user /\ CallUpdateProject("a", {"p1"}))
  \/ (~user /\ CallDeleteProject("a", {"p1"}))
  \/ (~user /\ CallAddSprint("a", {"p1"}))
  \/ (~user /\ CallUpdateSprint("a", {"s1"}))
  \/ (~user /\ CallDeleteSprint("a", {"s1"}))
  \/ (~user /\ CallAddTask("a", OnePatch))
  \/ (~user /\ CallUpdateTask("a", {"t1"}, OnePatch))
  \/ (~user /\ CallDeleteTask("a", {"t1"}))
  \/ \E p \in Procs :
       \/ FetchProjectsResponse(p, BOOLEAN)
       \/ FetchCollaborativeProjectsResponse(p, BOOLEAN)
       \/ FetchSprintsResponse(p, BOOLEAN)
       \/ FetchTasksBySprintResponse(p, BOOLEAN)
       \/ FetchBacklogTasksResponse(p, BOOLEAN)
       \/ DelayElapsed(p)

SpecAuth == InitTask /\ [][NextAuth]_vars

\* ============================================================ BurndownChart
\* Dates are day numbers (the ISO date strings in their order) and instants are
\* ms since the epoch, as Date holds them.
HourMs == 60 * 60 * 1000

\* the runtime's offset from UTC: west of UTC, UTC, east of UTC
Zones == {0 - HourMs, 0, HourMs}

\* ----------------------------------------------------------------- date-fns
\* parseISO of a date-only string: midnight of that day in local time
parseISO(dateStr, z) == dateStr * DayMs - z

\* startOfDay: the local midnight at or before the instant
startOfDay(ms, z) == ((ms + z) \div DayMs) * DayMs - z

addDays(ms, amount) == ms + amount * DayMs

isBefore(a, b) == a < b

isAfter(a, b) == a > b

\* isToday: the same local calendar day as Date.now()
isToday(ms, t, z) == startOfDay(ms, z) = startOfDay(t, z)

\* differenceInDays: the full days from b to a, truncated toward zero
differenceInDays(a, b) ==
  IF a >= b THEN (a - b) \div DayMs ELSE 0 - ((b - a) \div DayMs)

\* format(date, "MMM dd"): the local calendar day
format(ms, z) == (ms + z) \div DayMs

\* Math.max
max(a, b) == IF a >= b THEN a ELSE b

\* Math.round of the fraction num / den, den > 0: halves go up
round(num, den) == (2 * num + den) \div (2 * den)

\* actual: number | null
NoActual == 0 - 1

\* ------------------------------------------------------ the cache getters
getSprintsByProject(allSprints, projectId) ==
  SelectSeq(allSprints, LAMBDA s : s.projectId = projectId)

getTasksBySprint(allTasks, sprintId) ==
  SelectSeq(allTasks, LAMBDA t : t.sprintId = sprintId)

\* ----------------------------------------------------- generateBurndownData
\* for (const sprint of projectSprints) projectTasks.push(...getTasksBySprint(sprint.id))
RECURSIVE projectTasks(_, _)
projectTasks(projectSprints, allTasks) ==
  IF projectSprints = <<>> THEN <<>>
  ELSE getTasksBySprint(allTasks, Head(projectSprints).id)
         \o projectTasks(Tail(projectSprints), allTasks)

\* a missing estimate is 0 here: undefined > 0 is false and (storyPoints || 0) is 0
tasksWithPoints(ts) == SelectSeq(ts, LAMBDA task : task.storyPoints > 0)

\* reduce((sum, task) => sum + (task.storyPoints || 0), 0)
RECURSIVE sumStoryPoints(_)
sumStoryPoints(ts) ==
  IF ts = <<>> THEN 0 ELSE Head(ts).storyPoints + sumStoryPoints(Tail(ts))

earliestStartDate(projectSprints, z) ==
  LET starts == {parseISO(projectSprints[k].startDate, z) : k \in 1..Len(projectSprints)}
  IN  CHOOSE d \in starts : \A e \in starts : ~isBefore(e, d)

latestEndDate(projectSprints, z) ==
  LET ends == {parseISO(projectSprints[k].endDate, z) : k \in 1..Len(projectSprints)}
  IN  CHOOSE d \in ends : \A e \in ends : ~isAfter(e, d)

\* a variant without the minimum width
timeframeDays_unclamped(daysInProject) == daysInProject

timeframeDays(daysInProject) == max(daysInProject, 7)

\* completionDate.split('T')[0] of a date-only string
dateKey(task) == task.completionDate

\* completedTasksByDate.get(key): the done tasks with points grouped under the key
completedTasksByDate(withPoints, key) ==
  SelectSeq(withPoints, LAMBDA task : /\ task.status = "done"
                                      /\ task.completionDate # NoDate
                                      /\ dateKey(task) = key)

\* a variant that starts the line one day late
idealRemaining_fromNextDay(totalStoryPoints, days, i) ==
  max(0, totalStoryPoints * days - (i + 1) * totalStoryPoints)

\* Math.max(0, totalStoryPoints - i * pointsPerDay), in units of 1/days
idealRemaining(totalStoryPoints, days, i) ==
  max(0, totalStoryPoints * days - i * totalStoryPoints)

\* for (let j = 0; j <= i; j++): the points of the tasks grouped under the
\* toISOString() day of addDays(earliestStartDate, j)
RECURSIVE completedPoints(_, _, _, _)
completedPoints(withPoints, start, j, i) ==
  IF j > i THEN 0
  ELSE sumStoryPoints(completedTasksByDate(withPoints, toISODate(addDays(start, j))))
         + completedPoints(withPoints, start, j + 1, i)

actualPoints(withPoints, start, i, t, z) ==
  LET date == addDays(start, i)
  IN  IF isBefore(date, startOfDay(t, z)) \/ isToday(date, t, z)
      THEN max(0, sumStoryPoints(withPoints) - completedPoints(withPoints, start, 0, i))
      ELSE NoActual

\* uniqueData.set(dateStr, point): a Map keeps the place of a key it already holds
uniqueData_set(data, point) ==
  IF \E k \in 1..Len(data) : data[k].date = point.date
  THEN [k \in 1..Len(data) |-> IF data[k].date = point.date THEN point ELSE data[k]]
  ELSE Append(data, point)

\* for (let i = 0; i < timeframeDays; i++)
RECURSIVE burndownLoop(_, _, _, _, _, _, _)
burndownLoop(data, withPoints, start, days, i, t, z) ==
  IF ~(i < days) THEN data
  ELSE LET date == addDays(start, i)
           point == [date |-> toISODate(date),
                     ideal |-> round(idealRemaining(sumStoryPoints(withPoints), days, i), days),
                     actual |-> actualPoints(withPoints, start, i, t, z),
                     formattedDate |-> format(date, z)]
       IN  burndownLoop(uniqueData_set(data, point), withPoints, start, days, i + 1, t, z)

generateBurndownData(projectId, allSprints, allTasks, t, z) ==
  LET projectSprints == getSprintsByProject(allSprints, projectId)
      withPoints == tasksWithPoints(projectTasks(projectSprints, allTasks))
  IN  IF Len(projectSprints) = 0 THEN <<>>
      ELSE IF Len(withPoints) = 0 THEN <<>>
      ELSE LET start == earliestStartDate(projectSprints, z)
               daysInProject == differenceInDays(latestEndDate(projectSprints, z), start) + 1
           IN  IF sumStoryPoints(withPoints) = 0 THEN <<>>
               ELSE burndownLoop(<<>>, withPoints, start, timeframeDays(daysInProject), 0, t, z)

\* ----------------------------------------- the chart of one project
\* useParams().projectId
ChartProject == "p1"

\* the first day a sprint of the chart's project starts on
StartDay == 3

\* the sprints in the cache: s1 of the chart's project or absent, s2 of the
\* chart's project, of another project or absent; an end date may lie before the
\* start date
ChartSprint(id, projectId, startDate, endDate) ==
  [id |-> id, projectId |-> projectId, status |-> "planned",
   startDate |-> startDate, endDate |-> endDate]

ChartSprints ==
  LET s1s == {<<>>} \cup {<<ChartSprint("s1", ChartProject, a, b)>> :
                            a \in {StartDay, StartDay + 1},
                            b \in {StartDay - 1, StartDay + 6, StartDay + MaxSpanDays - 1}}
      s2s == {<<>>, <<ChartSprint("s2", "p2", StartDay - 1, StartDay + MaxSpanDays)>>}
               \cup {<<ChartSprint("s2", ChartProject, a, b)>> :
                       a \in {StartDay - 1, StartDay + 2},
                       b \in {StartDay + 3, StartDay + MaxSpanDays}}
  IN  {x \o y : x \in s1s, y \in s2s}

ChartTask(id, sprintId, storyPoints, status, completionDate) ==
  [id |-> id, sprintId |-> sprintId, status |-> status, projectId |-> ChartProject,
   completionDate |-> completionDate, storyPoints |-> storyPoints]

\* the tasks in the cache: t1 in s1, with or without estimate, done before the
\* span, inside it or not at all; t2 in s1, in s2, in the backlog or absent
ChartTasks ==
  LET t1s == {<<ChartTask("t1", "s1", pts, sd[1], sd[2])>> :
                pts \in {0, 5},
                sd \in {<<"todo", NoDate>>, <<"todo", StartDay + 2>>, <<"done", NoDate>>,
                        <<"done", StartDay - 1>>, <<"done", StartDay + 2>>}}
      t2s == {<<>>,
              <<ChartTask("t2", "s1", 3, "todo", NoDate)>>,
              <<ChartTask("t2", "s1", 3, "done", StartDay + 4)>>,
              <<ChartTask("t2", "s2", 3, "todo", NoDate)>>,
              <<ChartTask("t2", "s2", 3, "done", StartDay + 1)>>,
              <<ChartTask("t2", "", 3, "backlog", StartDay + 1)>>}
  IN  {x \o y : x \in t1s, y \in t2s}

\* Date.now(): before the span, inside it and after it, early, at noon and late
ChartNows ==
  {(StartDay - 2) * DayMs + HourMs \div 2,
   (StartDay + 1) * DayMs + 12 * HourMs,
   (StartDay + 4) * DayMs + 12 * HourMs,
   (StartDay + MaxSpanDays + 2) * DayMs + 23 * HourMs + HourMs \div 2}

InitChart ==
  /\ InitComponent
  /\ user = TRUE
  /\ isLoading = FALSE
  /\ projects = <<formatProject([id |-> ChartProject, title |-> "A"], FALSE)>>
  /\ sprints \in ChartSprints
  /\ tasks \in ChartTasks
  /\ burndownData = <<>>
  /\ lastFetchTime = [k \in Keys |-> 0]
  /\ fetchErrors = [k \in Keys |-> FALSE]
  /\ lftOwner = ""
  /\ now \in ChartNows
  /\ procs = [p \in Procs |-> Idle]
  /\ rProjects = {}
  /\ rCollab = {}
  /\ rSprints = {}
  /\ rTasks = {}
  /\ rColumns = {}
  /\ issued = {}
  /\ calls = 0
  /\ failures = 0
  /\ trace = <<>>
  /\ chartData = <<>>
  /\ zone \in Zones

\* generateAndSaveBurndownData: setChartData(await generateBurndownData())
GenerateAndSaveBurndownData ==
  /\ user
  /\ chartData' = generateBurndownData(ChartProject, sprints, tasks, now, zone)
  /\ trace' = <<Ev("generated", "generateBurndownData", ChartProject)>>
  /\ UNCHANGED <<user, isLoading, cacheVars, freshVars, now, procs, remoteVars, calls, failures,
                 zone, componentVars>>

NextChart == GenerateAndSaveBurndownData

SpecChart == InitChart /\ [][NextChart]_vars

\* ------------------------------------------------------------ properties
FetchFns == {"fetchProjects", "fetchCollaborativeProjects", "fetchSprints",
             "fetchTasksBySprint", "fetchBacklogTasks"}

KeyOf(fn, id) ==
  CASE fn = "fetchProjects" -> cacheKey("projects", "")
    [] fn = "fetchCollaborativeProjects" -> cacheKey("collaborations", "")
    [] fn = "fetchSprints" -> cacheKey("sprints", id)
    [] fn = "fetchTasksBySprint" -> cacheKey("tasks-sprint", id)
    [] fn = "fetchBacklogTasks" -> cacheKey("backlog", id)

Events(t) == {t[i] : i \in 1..Len(t)}

\* a non-forced fetch entered while an actor is authenticated
NonForcedEntry(e) ==
  e.fn \in FetchFns /\ e.pc = "entry" /\ e.kind \in {"hit", "skip", "issue"}
    /\ ~e.force /\ e.authed

\* C1: a key flagged errored is stale whatever its timestamp: a non-forced fetch
\* entered by an authenticated actor while the key's error flag is set does not
\* take the cache-hit path.
C1_ErroredKeyNeverHits ==
  \A e \in Events(trace) : NonForcedEntry(e) /\ e.errored => e.kind # "hit"

\* C2: a non-forced fetch by an authenticated actor skips the remote call exactly
\* when the key's timestamp is at most maxAge old, the key is not flagged errored
\* and the scope holds a record; otherwise it issues the remote read.
C2_HitIffFreshCleanNonEmpty ==
  \A e \in Events(trace) :
    NonForcedEntry(e) => ((e.kind # "issue") <=> (e.fresh /\ ~e.errored /\ e.nonEmpty))

\* the failed remote reads of the last step
FetchFailures(t) == {e \in Events(t) : e.kind = "fail" /\ e.fn \in FetchFns}

\* C9: a fetch whose remote read fails returns normally, sets the error flag of
\* its key, and leaves the cached projects, sprints and tasks and the key's fetch
\* timestamp as they were.
C9_FailedFetchKeepsCache ==
  [][\A e \in FetchFailures(trace') :
       /\ projects' = projects
       /\ sprints' = sprints
       /\ tasks' = tasks
       /\ fetchErrors'[KeyOf(e.fn, e.id)]
       /\ lastFetchTime'[KeyOf(e.fn, e.id)] = lastFetchTime[KeyOf(e.fn, e.id)]
       /\ \A x \in Events(trace') : x.kind # "raise"]_vars

\* a refetch failed over a scope that holds records and a timestamp
C9_Witness ==
  \E e \in FetchFailures(trace) :
    /\ lastFetchTime[KeyOf(e.fn, e.id)] # 0
    /\ fetchErrors[KeyOf(e.fn, e.id)]
    /\ e.fn = "fetchTasksBySprint"
    /\ Some(tasks, LAMBDA x : x.sprintId = e.id)

\* ------------------------------------------------ cascading deletes
\* the top-level operations fn that ended normally in the last step
DoneOf(t, fn) == {e \in Events(t) : e.kind = "done" /\ e.fn = fn}

\* the calls of fn, nested or not, that returned normally in the last step
ReturnsOf(t, fn) == {e \in Events(t) : e.kind = "return" /\ e.fn = fn}

Without(seq, field, id) == SelectSeq(seq, LAMBDA x : x[field] # id)

\* C5: when deleteProject(P) ends normally the cache holds no project P, no sprint
\* of P, no task of P or of a sprint of P and no burndown series of P, and the
\* records and burndown series of the other projects are those of the render the
\* call was made from.
C5_DeleteProjectClearsCache ==
  [][\A e \in DoneOf(trace', "deleteProject") :
       LET before == procs[e.by].snap
           sprintsOfP == {x.id : x \in {y \in Range(before.sprints) : y.projectId = e.id}}
                           \cup {r.id : r \in {y \in SeedSprints : y.project_id = e.id}}
       IN  /\ ~Some(projects', LAMBDA x : x.id = e.id)
           /\ ~Some(sprints', LAMBDA x : x.projectId = e.id)
           /\ ~Some(tasks', LAMBDA x : x.projectId = e.id \/ x.sprintId \in sprintsOfP)
           /\ e.id \notin DOMAIN burndownData'
           /\ Without(projects', "id", e.id) = Without(before.projects, "id", e.id)
           /\ Without(sprints', "projectId", e.id) = Without(before.sprints, "projectId", e.id)
           /\ Without(tasks', "projectId", e.id) = Without(before.tasks, "projectId", e.id)
           /\ burndownData' = [k \in DOMAIN burndownData \ {e.id} |-> burndownData[k]]]_vars

\* p1 was deleted with its sprint and its backlog task; the other projects, the
\* sprint of p2 and the burndown series of p3 are still cached
C5_Witness ==
  /\ \E e \in DoneOf(trace, "deleteProject") : e.id = "p1"
  /\ \E e \in Events(trace) : e.kind = "ok" /\ e.fn = "deleteProject" /\ e.pc = "delProject"
  /\ "s1" \notin IdsOf(rSprints)
  /\ Some(projects, LAMBDA x : x.id = "p2")
  /\ Some(projects, LAMBDA x : x.id = "p3")
  /\ Some(sprints, LAMBDA x : x.projectId = "p2")
  /\ "p3" \in DOMAIN burndownData

\* C6: when deleteProject(P) ends normally the remote store holds no sprint of P,
\* no task of a sprint of P and no backlog task of P, whatever the sprint cache
\* held when the call was made.
C6_DeleteProjectClearsRemote ==
  \A e \in DoneOf(trace, "deleteProject") :
    /\ ~\E r \in rSprints : r.project_id = e.id
    /\ ~\E r \in rTasks : r.project_id = e.id
    /\ ~\E r \in rTasks : \E x \in SeedSprints : x.project_id = e.id /\ r.sprint_id = x.id

\* what a returned deleteSprint(S) leaves behind, remotely and in the cache
SprintGone(id) ==
  /\ ~\E r \in rColumns : r.sprint_id = id
  /\ ~\E r \in rTasks : r.sprint_id = id
  /\ ~\E r \in rSprints : r.id = id
  /\ ~Some(sprints, LAMBDA x : x.id = id)
  /\ ~Some(tasks, LAMBDA x : x.sprintId = id)

\* a refresh of one project returned in the last step
Refreshed(t) == {e \in Events(t) : e.kind = "return" /\ e.fn = "refreshProjectData" /\ e.id # ""}

\* C7 as stated: a deleteSprint(S) whose remote calls all succeeded has removed the
\* columns, the tasks and the row of S remotely, S and its tasks from the cache,
\* and a refresh of a project has run before it returned.
C7_DeleteSprintAlwaysRefreshes ==
  \A e \in ReturnsOf(trace, "deleteSprint") :
    ~e.failed => SprintGone(e.id) /\ Refreshed(trace) # {}

\* C7: a deleteSprint(S) whose remote calls all succeeded has removed the columns,
\* the tasks and the row of S remotely and S and its tasks from the cache; a
\* refresh of the parent project has run before it returns exactly when S was in
\* the sprint cache of the render the call was made from, and that refresh is of
\* the project the cached S named.
C7_DeleteSprintCascade ==
  [][\A e \in ReturnsOf(trace', "deleteSprint") :
       ~e.failed =>
         LET before == procs[e.by].snap.sprints
             known == Some(before, LAMBDA x : x.id = e.id)
         IN  /\ SprintGone(e.id)'
             /\ known => \E r \in Refreshed(trace') :
                            r.id = Find(before, LAMBDA x : x.id = e.id).projectId
             /\ ~known => Refreshed(trace') = {}]_vars

\* s1, cached with its two columns and its task, was deleted and p1 refreshed
C7_Witness ==
  /\ \E e \in ReturnsOf(trace, "deleteSprint") : e.id = "s1" /\ ~e.failed
  /\ \E r \in Refreshed(trace) : r.id = "p1"
  /\ IdsOf(rColumns) = {}
  /\ "t1" \notin IdsOf(rTasks)
  /\ Some(tasks, LAMBDA x : x.id = "t2")

CascadeFns == {"deleteSprint", "deleteProject"}

\* the failed remote steps of a cascade in the last step
CascadeFailures(t) == {e \in Events(t) : e.kind = "fail" /\ e.fn \in CascadeFns}

Index(t, e) == CHOOSE i \in 1..Len(t) : t[i] = e

\* C8: when a remote step of the cascade of deleteSprint or deleteProject fails,
\* nothing of the operation is left to run and no further step is issued, the
\* remote store is left with the deletions made so far, the error reaches the
\* caller and an error notification is emitted.
C8_CascadeFailureAborts ==
  [][\A e \in CascadeFailures(trace') :
       /\ procs'[e.by] = Idle
       /\ \A i \in 1..Len(trace') :
            i > Index(trace', e) => trace'[i].kind \notin {"issue", "call", "ok", "refresh"}
       /\ <<rProjects, rCollab, rSprints, rTasks, rColumns>>'
            = <<rProjects, rCollab, rSprints, rTasks, rColumns>>
       /\ \E x \in Events(trace') : x.kind = "raise" /\ x.by = e.by /\ x.err = "remote"
       /\ \E x \in Events(trace') : x.kind = "toast.error" /\ x.by = e.by]_vars

\* the deletion of the row of s1 failed after its columns and its task were deleted
C8_Witness ==
  /\ \E e \in CascadeFailures(trace) : e.fn = "deleteSprint" /\ e.id = "s1" /\ e.pc = "sprintDelete"
  /\ "s1" \in IdsOf(rSprints)
  /\ "t1" \notin IdsOf(rTasks)
  /\ IdsOf(rColumns) = {}
  /\ procs["a"] = Idle

\* -------------------------------------------------- scope replacement
\* the successful responses to fetchSprints that carried no row
EmptySprintReads(t) == {e \in Events(t) : e.kind = "ok" /\ e.fn = "fetchSprints" /\ e.rows = 0}

\* C3: after a successful response with zero rows to fetchSprints(P) the sprint
\* cache holds no sprint of P, and the cached sprints of the other projects are
\* the same records in the same order.
C3_EmptyFetchClearsOnlyScope ==
  [][\A e \in EmptySprintReads(trace') :
       /\ ~Some(sprints', LAMBDA x : x.projectId = e.id)
       /\ Without(sprints', "projectId", e.id) = Without(sprints, "projectId", e.id)]_vars

\* a zero-row response dropped a cached sprint of its project while a sprint of
\* another project stays cached
C3_Witness ==
  \E e \in EmptySprintReads(trace) :
    /\ e.dropped > 0
    /\ Some(sprints, LAMBDA x : x.projectId # e.id)

\* ------------------------------------------------------ completion date
\* C4: a cached task's completion date, once set, is the same after every step;
\* and an updateTask that moves a task without completion date from another
\* status into "done" leaves it with the current date.
C4_CompletionDateWriteOnce ==
  [][/\ \A i \in 1..Len(tasks) : \A j \in 1..Len(tasks') :
          tasks[i].id = tasks'[j].id /\ tasks[i].completionDate # NoDate
            => tasks'[j].completionDate = tasks[i].completionDate
     /\ \A e \in DoneOf(trace', "updateTask") :
          LET f == Head(procs[e.by].stack)
          IN  f.fn = "updateTask" /\ f.patch.status = "done" /\ f.was.status # "done"
                /\ f.was.completionDate = NoDate
              => \A j \in 1..Len(tasks') :
                   tasks'[j].id = e.id => tasks'[j].completionDate = toISODate(now)]_vars

\* ------------------------------------------------------- without a user
MutationFns == {"addProject", "updateProject", "deleteProject", "addSprint", "updateSprint",
                "deleteSprint", "addTask", "updateTask", "deleteTask"}

\* C10: a call made while no user is authenticated changes neither the cache nor
\* the fetch timestamps nor the error flags nor the remote store, leaves nothing
\* in flight and issues no remote call; a fetch operation or refreshProjectData
\* ends normally without a notification, and a mutation raises
\* "User not authenticated".
C10_NoActorNoEffect ==
  [][(~user /\ calls' # calls) =>
       /\ <<cacheVars, freshVars, remoteVars, isLoading, procs>>'
            = <<cacheVars, freshVars, remoteVars, isLoading, procs>>
       /\ \A e \in Events(trace') :
            e.kind \notin {"issue", "call", "refresh", "toast.success", "toast.error"}
       /\ \E e \in Events(trace') :
            \/ e.kind = "done" /\ e.fn \in FetchFns \cup {"refreshProjectData"}
            \/ e.kind = "raise" /\ e.fn \in MutationFns /\ e.err = "User not authenticated"]_vars

\* after a logout that left fetch timestamps behind, a mutation was refused
C10_Witness ==
  /\ ~user
  /\ \E k \in Keys : lastFetchTime[k] # 0
  /\ \E e \in Events(trace) : e.kind = "raise" /\ e.fn = "updateTask"
                                /\ e.err = "User not authenticated"


\* ------------------------------------------------------ forced refresh
\* the fetches entered, directly or through the fan-out, by a refreshProjectData
\* that the UI called
RefreshEntries(t) ==
  {e \in Events(t) : e.op = "refreshProjectData" /\ e.fn \in FetchFns /\ e.pc = "entry"}

\* C11: every fetch that a refreshProjectData enters, with a project id or with
\* none, issues its remote read, also when the key is fresh, not flagged errored
\* and the scope holds records: none takes the cache-hit path or returns
\* without reading.
C11_RefreshAlwaysReads ==
  \A e \in RefreshEntries(trace) : e.kind = "issue"


RefreshSuccessTexts == {"Project data refreshed successfully", "All data refreshed successfully"}

\* the notifications of the last step of task p
Toasts(t, p, kind) == {e \in Events(t) : e.kind = kind /\ e.by = p}

\* C12: a refreshProjectData that ends after a remote read of its chain failed
\* has emitted the failure notification and no success notification, and one
\* that ends with every read of its chain successful has emitted a success
\* notification.
C12_RefreshReportsOutcome ==
  \A e \in DoneOf(trace, "refreshProjectData") :
    IF e.failed
    THEN /\ \E x \in Toasts(trace, e.by, "toast.error") : x.fn = "Failed to refresh project data"
         /\ Toasts(trace, e.by, "toast.success") = {}
    ELSE \E x \in Toasts(trace, e.by, "toast.success") : x.fn \in RefreshSuccessTexts


\* ------------------------------------------------- logout during a fetch
\* C13: while no actor is authenticated the projects, sprints, tasks and burndown
\* caches are empty: they are emptied at logout, and the response of a fetch that
\* was in flight at logout writes no record into them.
C13_LateResponseDiscarded ==
  ~user => projects = <<>> /\ sprints = <<>> /\ tasks = <<>> /\ burndownData = <<>>


\* ------------------------------------------------------ burndown series
\* generateBurndownData has run in the last step
Generated == \E e \in Events(trace) : e.kind = "generated"

\* the sprints of the chart's project
ChartSprintSet == {s \in Range(sprints) : s.projectId = ChartProject}

\* the tasks of those sprints that carry a story-point estimate greater than 0
Estimated ==
  {t \in Range(tasks) : t.storyPoints > 0 /\ \E s \in ChartSprintSet : s.id = t.sprintId}

RECURSIVE Points(_)
Points(S) ==
  IF S = {} THEN 0
  ELSE LET t == CHOOSE x \in S : TRUE IN t.storyPoints + Points(S \ {t})

\* T
TotalPoints == Points(Estimated)

\* the calendar dates of the span: earliest start, latest end, D
SpanStart == CHOOSE d \in {s.startDate : s \in ChartSprintSet} :
               \A s \in ChartSprintSet : d <= s.startDate

SpanEnd == CHOOSE d \in {s.endDate : s \in ChartSprintSet} :
             \A s \in ChartSprintSet : d >= s.endDate

SpanDays == SpanEnd - SpanStart + 1

\* the calendar date of today where the chart runs
LocalToday == (now + zone) \div DayMs

\* the points of the estimated tasks that are done with a completion date on or
\* before the day
DonePoints(day) ==
  Points({t \in Estimated : t.status = "done" /\ t.completionDate # NoDate
                              /\ t.completionDate <= day})

\* C14: in a generated series ideal[0] is T, the ideal values never increase from
\* one point to the next, and none is below 0.
C14_IdealNonIncreasing ==
  Generated /\ chartData # <<>> =>
    /\ chartData[1].ideal = TotalPoints
    /\ \A k \in 1..(Len(chartData) - 1) : chartData[k + 1].ideal <= chartData[k].ideal
    /\ \A k \in 1..Len(chartData) : chartData[k].ideal >= 0

\* a series of more than 7 points for 8 story points whose ideal line has a
\* plateau and a drop
C14_Witness ==
  /\ Generated
  /\ Len(chartData) > 7
  /\ TotalPoints = 8
  /\ \E k \in 1..(Len(chartData) - 1) : chartData[k + 1].ideal = chartData[k].ideal
  /\ \E k \in 1..(Len(chartData) - 1) : chartData[k + 1].ideal < chartData[k].ideal

\* C15: in a generated series a point dated after today has no actual value, and
\* a point dated today or earlier has an integer actual value from 0 to T.
C15_ActualNullAfterToday ==
  Generated =>
    \A k \in 1..Len(chartData) :
      IF chartData[k].date > LocalToday
      THEN chartData[k].actual = NoActual
      ELSE chartData[k].actual \in 0..TotalPoints

\* C16: for every day i of the span on or before today, actual[i] is T minus the
\* points of the estimated tasks done on or before that day, floored at 0,
\* wherever the completion date lies relative to the start of the span.
C16_ActualCountsEveryCompletion ==
  Generated =>
    \A k \in 1..Len(chartData) :
      SpanStart + (k - 1) <= LocalToday =>
        chartData[k].actual = max(0, TotalPoints - DonePoints(SpanStart + (k - 1)))

\* the scenario: one sprint of 7 days, a 5-point task done on day index 2, a
\* 3-point task not done, today at day index 4
Scenario ==
  /\ sprints = <<ChartSprint("s1", ChartProject, StartDay, StartDay + 6)>>
  /\ tasks = <<ChartTask("t1", "s1", 5, "done", StartDay + 2),
               ChartTask("t2", "s1", 3, "todo", NoDate)>>
  /\ LocalToday = StartDay + 4

\* C17: in the scenario the series has 7 points, ideal[i] is 8 - i * 8/7 rounded,
\* actual is 8, 8, 3, 3, 3 and then null twice.
C17_Scenario ==
  Generated /\ Scenario =>
    /\ Len(chartData) = 7
    /\ \A k \in 1..7 : chartData[k].ideal = round(8 * 7 - (k - 1) * 8, 7)
    /\ [k \in 1..7 |-> chartData[k].actual] = <<8, 8, 3, 3, 3, NoActual, NoActual>>

\* C18: the generated series is empty exactly when the project has no sprint or
\* no task of its sprints carries an estimate greater than 0.
C18_EmptyIffNothingToBurn ==
  Generated => (chartData = <<>> <=> (ChartSprintSet = {} \/ Estimated = {}))

\* the project has two sprints and a task in one of them, the task carries no
\* estimate and the only estimated task is in the backlog: the series is empty
C18_Witness ==
  /\ Generated
  /\ chartData = <<>>
  /\ Cardinality(ChartSprintSet) = 2
  /\ \E t \in Range(tasks) : t.sprintId = "s1" /\ t.storyPoints = 0
  /\ \E t \in Range(tasks) : t.sprintId = "" /\ t.storyPoints > 0

\* C19: a non-empty series has max(D, 7) points, and the date of the k-th point
\* is the k-th calendar day counted from the earliest sprint start date.
C19_OnePointPerDay ==
  Generated /\ chartData # <<>> =>
    /\ Len(chartData) = max(SpanDays, 7)
    /\ \A k \in 1..Len(chartData) : chartData[k].date = SpanStart + (k - 1)

\* C20: the ideal value of the last point of a non-empty series is 0.
C20_IdealEndsAtZero ==
  Generated /\ chartData # <<>> => chartData[Len(chartData)].ideal = 0


\* ------------------------------------- moving a task between its scopes
\* one project with two sprints; t1 is in sprint s1, t2 is in the backlog
MoveSprints == {[id |-> "s1", project_id |-> "p1", status |-> "planned"],
                [id |-> "s2", project_id |-> "p1", status |-> "planned"]}

InitMove ==
  /\ InitLocal
  /\ rProjects = SeedProjects
  /\ rCollab = {}
  /\ rSprints = MoveSprints
  /\ rTasks = SeedTasks
  /\ rColumns = {}
  /\ issued = IdsOf(rProjects) \cup IdsOf(rSprints) \cup IdsOf(rTasks)

\* drag to another sprint, drag to the backlog, drag out of the backlog
MovePatches == {[NoPatch EXCEPT !.sprintId = "s2"],
                [NoPatch EXCEPT !.sprintId = "s1"],
                [NoPatch EXCEPT !.status = "backlog"],
                [NoPatch EXCEPT !.status = "todo", !.sprintId = "s1"]}

NextMove ==
  \/ Login
  \/ (user /\ CallUpdateTask("a", {"t1", "t2"}, MovePatches))
  \/ \E p \in Procs :
       \/ UpdateTaskResponse(p, {TRUE})
       \/ FetchProjectsResponse(p, {TRUE})
       \/ FetchCollaborativeProjectsResponse(p, {TRUE})
       \/ FetchSprintsResponse(p, {TRUE})
       \/ FetchTasksBySprintResponse(p, {TRUE})
       \/ FetchBacklogTasksResponse(p, {TRUE})
       \/ DelayElapsed(p)

SpecMove == InitMove /\ [][NextMove]_vars

\* the call a task was started with: the bottom frame of its stack
CallOf(pr) == pr.stack[Len(pr.stack)]

\* the step in which the call of task p returns to the UI
Returns(p, fn) ==
  /\ procs[p] # Idle
  /\ procs'[p] = Idle
  /\ CallOf(procs[p]).fn = fn
  /\ \E e \in Events(trace') : e.kind = "done" /\ e.by = p /\ e.fn = fn

getBacklogTasks(allTasks, projectId) ==
  SelectSeq(allTasks, LAMBDA t : t.status = "backlog" /\ t.projectId = projectId
                                 /\ t.sprintId = "")

Lists(view, id) == Some(view, LAMBDA t : t.id = id)

\* C22: when updateTask moved a task from sprint A to sprint B and every remote
\* call succeeded, then on return the task is listed by getTasksBySprint(B) and no
\* longer by getTasksBySprint(A).
C22_ViewsAgreeAfterMove ==
  [][\A p \in Procs :
       Returns(p, "updateTask") =>
         LET f == CallOf(procs[p])
             A == f.was.sprintId
             B == f.patch.sprintId
         IN  (B \notin {NULL, ""} /\ A # "" /\ B # A) =>
               /\ Lists(getTasksBySprint(tasks', B), f.id)
               /\ ~Lists(getTasksBySprint(tasks', A), f.id)]_vars


\* C23: when updateTask moved a task without completion date from a status other
\* than "done" into "done" and returned normally, the cached task and the remote
\* row both carry today's date as completion date.
C23_DoneStampedBothSides ==
  [][\A p \in Procs :
       Returns(p, "updateTask") =>
         LET f == CallOf(procs[p])
             today == toISODate(now)
         IN  (/\ f.patch.status = "done"
              /\ f.was.status # "done"
              /\ f.was.completionDate = NoDate
              /\ ~f.patch.hasCompletionDate) =>
               /\ \A t \in Range(tasks') : t.id = f.id => t.completionDate = today
               /\ \A r \in rTasks' : r.id = f.id => r.completion_date = today]_vars


\* ------------------------------------------- the mutations, one at a time
\* project p1 with sprint s1; its task t1 was created by another member
InitMutate ==
  /\ InitLocal
  /\ rProjects = SeedProjects
  /\ rCollab = {}
  /\ rSprints = {r \in SeedSprints : r.project_id = "p1"}
  /\ rTasks = {[id |-> "t1", sprint_id |-> "s1", project_id |-> "p1", status |-> "todo",
                completion_date |-> NoDate, user_id |-> Other]}
  /\ rColumns = {}
  /\ issued = IdsOf(rProjects) \cup IdsOf(rSprints) \cup IdsOf(rTasks)

\* ids the cache holds and ids it does not hold
NextMutate ==
  \/ Login
  \/ (user /\ CallAddProject("a"))
  \/ (user /\ CallUpdateProject("a", {"p1", "p3"}))
  \/ (user /\ CallAddSprint("a", {"p1"}))
  \/ (user /\ CallUpdateSprint("a", SprintIds))
  \/ (user /\ CallAddTask("a", OnePatch))
  \/ (user /\ CallUpdateTask("a", {"t1", "t2"}, StatusPatches))
  \/ (user /\ CallDeleteTask("a", {"t1", "t2"}))
  \/ \E p \in Procs :
       \/ AddProjectResponse(p, BOOLEAN)
       \/ UpdateProjectResponse(p, BOOLEAN)
       \/ AddSprintResponse(p, BOOLEAN)
       \/ UpdateSprintResponse(p, BOOLEAN)
       \/ AddTaskResponse(p, BOOLEAN)
       \/ UpdateTaskResponse(p, BOOLEAN)
       \/ UpdateTaskStampResponse(p, BOOLEAN)
       \/ DeleteTaskResponse(p, BOOLEAN)
       \/ FetchProjectsResponse(p, {TRUE})
       \/ FetchCollaborativeProjectsResponse(p, {TRUE})
       \/ FetchSprintsResponse(p, BOOLEAN)
       \/ FetchTasksBySprintResponse(p, BOOLEAN)
       \/ FetchBacklogTasksResponse(p, BOOLEAN)
       \/ DelayElapsed(p)

SpecMutate == InitMutate /\ [][NextMutate]_vars


\* C24: updateSprint starts a project-data refresh for the sprint's project exactly
\* when the cached sprint was not "completed" and the update sets "completed"; the
\* refresh starts after the remote update succeeded and the cached sprint was merged.
C24_RefreshIffCompleting ==
  [][/\ \A e \in Events(trace') :
          (e.kind = "refresh" /\ e.op = "updateSprint") =>
            /\ At(e.by, "updateSprint", "update")
            /\ LET f == Arg(e.by)
               IN  /\ f.was.status # "completed"
                   /\ f.patch.status = "completed"
                   /\ e.id = f.was.projectId
                   /\ \E o \in Events(trace') :
                        /\ o.kind = "ok" /\ o.fn = "updateSprint" /\ o.by = e.by
                        /\ Index(trace', o) < Index(trace', e)
                   /\ \E s \in Range(sprints') : s.id = f.id /\ s.status = "completed"
     /\ \A p \in Procs :
          (/\ At(p, "updateSprint", "update")
           /\ \E o \in Events(trace') : o.kind = "ok" /\ o.fn = "updateSprint" /\ o.by = p
           /\ Arg(p).was.status # "completed"
           /\ Arg(p).patch.status = "completed") =>
            \E e \in Events(trace') :
              e.kind = "refresh" /\ e.by = p /\ e.id = Arg(p).was.projectId]_vars

\* a sprint was completed and the refresh of its project has started
C24_Witness ==
  /\ \E e \in Events(trace) : e.kind = "refresh" /\ e.op = "updateSprint" /\ e.id = "p1"
  /\ \E s \in Range(sprints) : s.id = "s1" /\ s.status = "completed"
  /\ \E r \in rSprints : r.id = "s1" /\ r.status = "completed"


Count(s, id) == Cardinality({i \in 1..Len(s) : s[i].id = id})

\* C25: when addSprint's insert succeeded, the sprint built from the response, with
\* an id the store assigned, is appended to the cache and a refreshProjectData for
\* its project is started next; addSprint returns only after that refresh returned,
\* and when it returns without a failed read the cache holds the new id exactly once.
C25_AddSprintAppendsThenRefreshes ==
  [][\A p \in Procs :
       /\ (/\ At(p, "addSprint", "insert")
           /\ \E o \in Events(trace') : o.kind = "ok" /\ o.fn = "addSprint" /\ o.by = p) =>
            /\ procs'[p] # Idle
            /\ LET newSprint == CallOf(procs'[p]).upd
               IN  /\ newSprint.id \in issued' \ issued
                   /\ newSprint.projectId = Arg(p).patch.projectId
                   /\ sprints' = Append(sprints, newSprint)
                   /\ \E o, e \in Events(trace') :
                        /\ o.kind = "ok" /\ o.fn = "addSprint" /\ o.by = p
                        /\ e.kind = "refresh" /\ e.by = p /\ e.id = newSprint.projectId
                        /\ Index(trace', o) < Index(trace', e)
       /\ Returns(p, "addSprint") =>
            LET f == CallOf(procs[p])
            IN  /\ \E r, e \in Events(trace') :
                     /\ r.kind = "return" /\ r.fn = "refreshProjectData" /\ r.by = p
                     /\ r.id = f.patch.projectId
                     /\ e.kind = "return" /\ e.fn = "addSprint" /\ e.by = p
                     /\ Index(trace', r) < Index(trace', e)
                /\ (\A e \in Events(trace') : e.by = p => ~e.failed) =>
                     Count(sprints', f.upd.id) = 1]_vars

\* addSprint has returned: the new sprint s2 is cached once and stored remotely
C25_Witness ==
  /\ \E e \in Events(trace) : e.kind = "done" /\ e.fn = "addSprint" /\ ~e.failed
  /\ Count(sprints, "s2") = 1
  /\ \E r \in rSprints : r.id = "s2" /\ r.project_id = "p1"


\* the operations that look their entity up in the cache first
LookupFns == {"updateSprint", "updateTask", "deleteTask"}

NotFoundError(fn) == IF fn = "updateSprint" THEN "Sprint not found" ELSE "Task not found"

\* the ids the cache of the entity holds in the current render
CachedIds(fn) ==
  CASE fn = "updateProject" -> {x.id : x \in Range(projects)}
    [] fn = "updateSprint" -> {x.id : x \in Range(sprints)}
    [] OTHER -> {x.id : x \in Range(tasks)}

\* event e belongs to the first step of a call of fn, made by a signed-in user with
\* an id the cache does not hold
CalledWithAbsentId(e, Fns) ==
  /\ user
  /\ procs[e.by] = Idle
  /\ e.op \in Fns
  /\ e.fn = e.op
  /\ e.id \notin CachedIds(e.op)

\* C26: updateSprint, updateTask and deleteTask called with an id the cache does not
\* hold raise their not-found error in the step of the call, issue no remote call,
\* and leave the cache (and the remote store) unchanged.
C26_AbsentIdRaisesNotFound ==
  [][\A e \in Events(trace') :
       CalledWithAbsentId(e, LookupFns) =>
         /\ procs'[e.by] = Idle
         /\ \E x \in Events(trace') :
              /\ x.kind = "raise" /\ x.by = e.by /\ x.fn = e.op /\ x.id = e.id
              /\ x.err = NotFoundError(e.op)
         /\ \A x \in Events(trace') : x.by = e.by => x.kind \in {"notfound", "raise"}
         /\ UNCHANGED <<cacheVars, remoteVars>>]_vars

\* deleteTask was called for a task the cache does not hold
C26_Witness ==
  /\ user
  /\ \E e \in Events(trace) :
       e.kind = "raise" /\ e.fn = "deleteTask" /\ e.id = "t2" /\ e.err = "Task not found"
  /\ ~Lists(tasks, "t2")
  /\ Lists(tasks, "t1")


\* C27: updateProject called with an id the project cache does not hold raises a
\* not-found error in the step of the call, issues no remote update, and leaves the
\* project cache unchanged.
C27_UpdateProjectValidates ==
  [][\A e \in Events(trace') :
       CalledWithAbsentId(e, {"updateProject"}) =>
         /\ procs'[e.by] = Idle
         /\ \E x \in Events(trace') : x.kind = "raise" /\ x.by = e.by /\ x.fn = e.op
         /\ \A x \in Events(trace') : x.by = e.by => x.kind # "issue"
         /\ projects' = projects]_vars


\* the mutations that write one entity
WriteFns == {"addProject", "addSprint", "addTask", "updateProject", "updateSprint",
             "updateTask", "deleteTask"}

\* where a mutation stands while its first remote write has not answered
BeforeWritePcs == {"entry", "insert", "update", "delete"}

\* C28: a mutation changes the cache only once its remote write has reported
\* success; when a remote write of the mutation fails, the error is raised to the
\* caller and projects, sprints, tasks and burndown data are unchanged.
C28_CacheFollowsRemoteSuccess ==
  [][/\ \A e \in Events(trace') :
          (e.kind = "fail" /\ e.op \in WriteFns /\ e.fn = e.op) =>
            /\ \E x \in Events(trace') :
                 x.kind = "raise" /\ x.by = e.by /\ x.fn = e.op /\ x.err = "remote"
            /\ UNCHANGED cacheVars
     /\ \A p \in Procs :
          (/\ cacheVars' # cacheVars
           /\ procs[p] # Idle
           /\ CallOf(procs[p]).fn \in WriteFns
           /\ \E e \in Events(trace') : e.by = p) =>
            \/ CallOf(procs[p]).pc \notin BeforeWritePcs
            \/ \E o \in Events(trace') :
                 o.kind = "ok" /\ o.by = p /\ o.fn = CallOf(procs[p]).fn]_vars


\* C29: deleteTask removes the task from the cache in the step in which its remote
\* delete succeeded, and then forces a refetch of the task's former sprint or, when
\* it had none, of its project's backlog; when deleteTask returns and no remote call
\* failed, the cache does not hold the task.
C29_DeleteTaskRemovesAndRefetches ==
  [][\A p \in Procs :
       /\ (/\ At(p, "deleteTask", "delete")
           /\ \E o \in Events(trace') : o.kind = "ok" /\ o.fn = "deleteTask" /\ o.by = p) =>
            LET f == Arg(p)
                taskToDelete == f.was
            IN  /\ tasks' = SelectSeq(tasks, LAMBDA t : t.id # f.id)
                /\ \E o, e \in Events(trace') :
                     /\ o.kind = "ok" /\ o.fn = "deleteTask" /\ o.by = p
                     /\ e.kind = "issue" /\ e.by = p /\ e.force
                     /\ Index(trace', o) < Index(trace', e)
                     /\ IF taskToDelete.sprintId # ""
                        THEN e.fn = "fetchTasksBySprint" /\ e.id = taskToDelete.sprintId
                        ELSE e.fn = "fetchBacklogTasks" /\ e.id = taskToDelete.projectId
       /\ (/\ Returns(p, "deleteTask")
           /\ \A e \in Events(trace') : e.by = p => ~e.failed) =>
            ~Lists(tasks', CallOf(procs[p]).id)]_vars


\* ------------------------------------------------- the fan-out of a fetch
\* two own projects and a shared one; p1 and p2 have a sprint, p1 has tasks
InitFan ==
  /\ InitLocal
  /\ rProjects = SeedProjects \cup {[id |-> "p3", title |-> "B"]}
  /\ rCollab = SeedCollab
  /\ rSprints = SeedSprints
  /\ rTasks = SeedTasks
  /\ rColumns = {}
  /\ issued = IdsOf(rProjects) \cup IdsOf(rCollab) \cup IdsOf(rSprints) \cup IdsOf(rTasks)

NextFan ==
  \/ Login
  \/ (user /\ CallRefreshProjectData("a", {""}))
  \/ \E p \in Procs :
       \/ FetchProjectsResponse(p, BOOLEAN)
       \/ FetchCollaborativeProjectsResponse(p, BOOLEAN)
       \/ FetchSprintsResponse(p, BOOLEAN)
       \/ FetchTasksBySprintResponse(p, BOOLEAN)
       \/ FetchBacklogTasksResponse(p, BOOLEAN)
       \/ DelayElapsed(p)

SpecFan == InitFan /\ [][NextFan]_vars

FanOutFns == {"fetchProjects", "fetchCollaborativeProjects"}

\* C30: within one fetchProjects or fetchCollaborativeProjects call at most one
\* remote read is outstanding; a project's backlog read is issued only when the
\* call itself resumes after that project's sprints fetch (with the task fetches of
\* its sprints) and the delay; the sprints fetch of the next project is issued only
\* when the call resumes after the previous project's backlog fetch and delay.
C30_FanOutIsSequential ==
  [][\A p \in Procs :
       /\ \A i \in 2..Len(procs'[p].stack) : procs'[p].stack[i].pc # "read"
       /\ \A e \in Events(trace') :
            (e.kind = "issue" /\ e.by = p /\ Len(procs'[p].stack) >= 2 /\ procs[p] # Idle) =>
              LET after == procs'[p].stack
                  callee == after[1]
                  caller == after[2]
                  before == Head(procs[p].stack)
              IN  /\ callee.fn = e.fn /\ callee.id = e.id /\ callee.pc = "read"
                  /\ Cardinality({x \in Events(trace') : x.kind = "issue" /\ x.by = p}) = 1
                  /\ (caller.fn \in FanOutFns /\ e.fn = "fetchSprints") =>
                       /\ before.fn = caller.fn
                       /\ e.id = Head(caller.todo)
                       /\ \/ before.pc = "read"
                          \/ before.pc = "delay2" /\ Tail(before.todo) = caller.todo
                  /\ (caller.fn \in FanOutFns /\ e.fn = "fetchBacklogTasks") =>
                       /\ before.fn = caller.fn
                       /\ before.pc = "delay1"
                       /\ before.todo = caller.todo
                       /\ e.id = Head(caller.todo)
                  /\ (caller.fn \in FanOutFns) => e.fn \in {"fetchSprints", "fetchBacklogTasks"}
                  /\ (/\ caller.fn = "fetchSprints"
                      /\ Len(after) >= 3
                      /\ after[3].fn \in FanOutFns) =>
                       /\ e.fn = "fetchTasksBySprint"
                       /\ before.fn = "fetchSprints"
                       /\ before.pc \in {"read", "delay"}
                       /\ after[3].pc = "delay1"
                       /\ caller.id = Head(after[3].todo)]_vars

\* the backlog of the second own project is being read: the first project's sprint,
\* tasks and backlog are cached
C30_Witness ==
  /\ \E e \in Events(trace) : e.kind = "issue" /\ e.fn = "fetchBacklogTasks" /\ e.id = "p3"
  /\ procs["a"] # Idle
  /\ CallOf(procs["a"]).fn = "fetchProjects"
  /\ Lists(sprints, "s1")
  /\ Lists(tasks, "t1")
  /\ Lists(tasks, "t2")


\* ------------------------------------ BurndownChart: loading and recomputing
\* how often the provider renders with new values
MaxRenders == 2

\* what the provider may hold for the project: no, one or two sprints; no task, one
\* or two tasks, and a task of another project
RecomputeSprints ==
  {<<>>,
   <<ChartSprint("s1", ChartProject, StartDay, StartDay + 6)>>,
   <<ChartSprint("s1", ChartProject, StartDay, StartDay + 6),
     ChartSprint("s2", ChartProject, StartDay + 2, StartDay + MaxSpanDays)>>}

RecomputeTasks ==
  {<<>>,
   <<ChartTask("t1", "s1", 5, "todo", NoDate)>>,
   <<ChartTask("t1", "s1", 5, "todo", NoDate), ChartTask("t2", "s1", 3, "done", StartDay + 1)>>,
   <<ChartTask("t1", "s1", 5, "todo", NoDate),
     [ChartTask("t2", "s2", 3, "todo", NoDate) EXCEPT !.projectId = "p2"]>>}

\* Date.now() while the chart is open
RecomputeNow == (StartDay + 1) * DayMs + 12 * HourMs

\* generateBurndownData() in each of these renders, at RecomputeNow in UTC
renderedBurndownData ==
  [ss \in RecomputeSprints |->
     [ts \in RecomputeTasks |-> generateBurndownData(ChartProject, ss, ts, RecomputeNow, 0)]]

\* the state of the component, and the events of the step
Component ==
  [chartData |-> chartData, isLoading |-> chartIsLoading, isUpdating |-> isUpdating,
   lastTasksLength |-> lastTasksLength, lastSprintsLength |-> lastSprintsLength,
   dataFetched |-> dataFetchedRef, timeout |-> loadingTimeoutRef, loads |-> loads,
   updates |-> updates, saved |-> rBurndown, trace |-> <<>>]

currentTasksCount(ts) == Len(SelectSeq(ts, LAMBDA t : t.projectId = ChartProject))

currentSprintsCount(ss) == Len(getSprintsByProject(ss, ChartProject))

\* updateBurndownData after its await: the counts are those the effect computed
updateBurndownData_done(k, tasksCount, sprintsCount) ==
  [k EXCEPT !.lastTasksLength = tasksCount,
            !.lastSprintsLength = sprintsCount,
            !.isUpdating = FALSE,
            !.trace = Append(@, Ev("recomputed", "updateBurndownData", ChartProject))]

\* a variant that compares the task count only
recomputeEffect_tasksOnly(k, ts, ss) ==
  LET projectSprints == getSprintsByProject(ss, ChartProject)
      tasksCount == currentTasksCount(ts)
      sprintsCount == Len(projectSprints)
      shouldUpdate == tasksCount # k.lastTasksLength
  IN  IF ~user \/ k.isLoading \/ ~k.dataFetched THEN k
      ELSE IF Len(projectSprints) = 0 THEN k
      ELSE IF shouldUpdate /\ ~k.isUpdating
           THEN LET data == renderedBurndownData[ss][ts]
                    k1 == [k EXCEPT !.chartData = data,
                                    !.trace = Append(@, Ev("generated", "generateBurndownData",
                                                           ChartProject))]
                IN  IF Len(data) > 0
                    THEN [k1 EXCEPT !.isUpdating = TRUE,
                                    !.updates = Append(@, [currentTasksCount |-> tasksCount,
                                                           currentSprintsCount |-> sprintsCount,
                                                           burndownData |-> data])]
                    ELSE updateBurndownData_done(k1, tasksCount, sprintsCount)
           ELSE k

\* a variant that does not look at isUpdating
recomputeEffect_unguarded(k, ts, ss) ==
  LET projectSprints == getSprintsByProject(ss, ChartProject)
      tasksCount == currentTasksCount(ts)
      sprintsCount == Len(projectSprints)
      shouldUpdate == tasksCount # k.lastTasksLength \/ sprintsCount # k.lastSprintsLength
  IN  IF ~user \/ k.isLoading \/ ~k.dataFetched THEN k
      ELSE IF Len(projectSprints) = 0 THEN k
      ELSE IF shouldUpdate
           THEN LET data == renderedBurndownData[ss][ts]
                    k1 == [k EXCEPT !.chartData = data,
                                    !.trace = Append(@, Ev("generated", "generateBurndownData",
                                                           ChartProject))]
                IN  IF Len(data) > 0
                    THEN [k1 EXCEPT !.isUpdating = TRUE,
                                    !.updates = Append(@, [currentTasksCount |-> tasksCount,
                                                           currentSprintsCount |-> sprintsCount,
                                                           burndownData |-> data])]
                    ELSE updateBurndownData_done(k1, tasksCount, sprintsCount)
           ELSE k

\* the recompute effect, run after a render with tasks ts and sprints ss; with an
\* empty series nothing is saved and updateBurndownData ends without a remote call
recomputeEffect(k, ts, ss) ==
  LET projectSprints == getSprintsByProject(ss, ChartProject)
      tasksCount == currentTasksCount(ts)
      sprintsCount == Len(projectSprints)
      shouldUpdate == tasksCount # k.lastTasksLength \/ sprintsCount # k.lastSprintsLength
  IN  IF ~user \/ k.isLoading \/ ~k.dataFetched THEN k
      ELSE IF Len(projectSprints) = 0 THEN k
      ELSE IF shouldUpdate /\ ~k.isUpdating
           THEN LET data == renderedBurndownData[ss][ts]
                    k1 == [k EXCEPT !.chartData = data,
                                    !.trace = Append(@, Ev("generated", "generateBurndownData",
                                                           ChartProject))]
                IN  IF Len(data) > 0
                    THEN [k1 EXCEPT !.isUpdating = TRUE,
                                    !.updates = Append(@, [currentTasksCount |-> tasksCount,
                                                           currentSprintsCount |-> sprintsCount,
                                                           burndownData |-> data])]
                    ELSE updateBurndownData_done(k1, tasksCount, sprintsCount)
           ELSE k

\* the load effect: its cleanup, then loadBurndownData up to its first await
loadEffect(k, ts, ss) ==
  LET availableSprints == getSprintsByProject(ss, ChartProject)
      cleaned == [k EXCEPT !.timeout = FALSE]
  IN  IF Len(availableSprints) = 0
      THEN [cleaned EXCEPT !.isLoading = FALSE, !.dataFetched = TRUE, !.timeout = TRUE]
      ELSE [cleaned EXCEPT !.isLoading = TRUE,
                           !.dataFetched = FALSE,
                           !.loads = Append(@, [pc |-> "fetch", tasks |-> ts, sprints |-> ss,
                                                burndownData |-> <<>>])]

\* finally { clearTimeout; setTimeout(..., 500) }
loadBurndownData_finally(k, i) ==
  [k EXCEPT !.timeout = TRUE,
            !.loads = SubSeq(@, 1, i - 1) \o SubSeq(@, i + 1, Len(@))]

\* fetchBurndownData has answered: saved rows, no rows, or an error
loadBurndownData_fetched(k, i, outcome) ==
  LET run == k.loads[i]
  IN  IF outcome = "data"
      THEN loadBurndownData_finally([k EXCEPT !.chartData = k.saved], i)
      ELSE LET data == renderedBurndownData[run.sprints][run.tasks]
               k1 == [k EXCEPT !.chartData = data,
                               !.trace = Append(@, Ev("generated", "generateBurndownData",
                                                      ChartProject))]
           IN  IF Len(data) > 0
               THEN [k1 EXCEPT !.loads[i].pc = "save", !.loads[i].burndownData = data]
               ELSE loadBurndownData_finally(k1, i)

Commits(k) ==
  /\ chartData' = k.chartData
  /\ chartIsLoading' = k.isLoading
  /\ isUpdating' = k.isUpdating
  /\ lastTasksLength' = k.lastTasksLength
  /\ lastSprintsLength' = k.lastSprintsLength
  /\ dataFetchedRef' = k.dataFetched
  /\ loadingTimeoutRef' = k.timeout
  /\ loads' = k.loads
  /\ updates' = k.updates
  /\ rBurndown' = k.saved
  /\ trace' = k.trace

\* every state change renders the component with tasks ts and sprints ss, and the
\* recompute effect runs after the render until it changes nothing
SetComponent(k, ts, ss) ==
  \E k0 \in {k} :
    \E k1 \in {recomputeEffect(k0, ts, ss)} :
      \E k2 \in {recomputeEffect(k1, ts, ss)} : Commits(k2)

InitRecompute ==
  /\ InitComponent
  /\ user = TRUE
  /\ isLoading = FALSE
  /\ projects = <<formatProject([id |-> ChartProject, title |-> "A"], FALSE)>>
  /\ sprints = <<>>
  /\ tasks = <<>>
  /\ burndownData = <<>>
  /\ lastFetchTime = [k \in Keys |-> 0]
  /\ fetchErrors = [k \in Keys |-> FALSE]
  /\ lftOwner = ""
  /\ now = RecomputeNow
  /\ procs = [p \in Procs |-> Idle]
  /\ rProjects = {}
  /\ rCollab = {}
  /\ rSprints = {}
  /\ rTasks = {}
  /\ rColumns = {}
  /\ issued = {}
  /\ calls = 0
  /\ failures = 0
  /\ trace = <<>>
  /\ chartData = <<>>
  /\ zone = 0

providerVars == <<user, isLoading, projects, burndownData, freshVars, now, procs, remoteVars,
                  zone>>

\* the provider renders (the first time: the component mounts); getSprintsByProject
\* is a new function in every render, so the load effect runs again
ProviderRenders ==
  /\ user
  /\ calls < MaxRenders
  /\ calls' = calls + 1
  /\ \E ts \in RecomputeTasks, ss \in RecomputeSprints :
       /\ tasks' = ts
       /\ sprints' = ss
       /\ SetComponent(loadEffect(Component, ts, ss), ts, ss)
  /\ UNCHANGED <<providerVars, failures>>

LoadFetchResponse ==
  \E i \in 1..Len(loads), outcome \in {"data", "none", "error"} :
    /\ loads[i].pc = "fetch"
    /\ outcome = "data" => Len(rBurndown) > 0
    /\ outcome = "none" => Len(rBurndown) = 0
    /\ Outcome(outcome # "error")
    /\ SetComponent(loadBurndownData_fetched(Component, i, outcome), tasks, sprints)
    /\ UNCHANGED <<providerVars, tasks, sprints, calls>>

\* upsertBurndownData of a load has answered
LoadSaveResponse ==
  \E i \in 1..Len(loads), ok \in BOOLEAN :
    /\ loads[i].pc = "save"
    /\ Outcome(ok)
    /\ LET k == [Component EXCEPT !.saved = IF ok THEN loads[i].burndownData ELSE @]
       IN  SetComponent(loadBurndownData_finally(k, i), tasks, sprints)
    /\ UNCHANGED <<providerVars, tasks, sprints, calls>>

\* setTimeout(() => { setIsLoading(false); dataFetchedRef.current = true }, 500)
LoadingTimeoutFires ==
  /\ loadingTimeoutRef
  /\ LET k == [Component EXCEPT !.isLoading = FALSE, !.dataFetched = TRUE, !.timeout = FALSE]
     IN  SetComponent(k, tasks, sprints)
  /\ UNCHANGED <<providerVars, tasks, sprints, calls, failures>>

\* upsertBurndownData of updateBurndownData has answered
UpdateSaveResponse ==
  /\ updates # <<>>
  /\ \E ok \in BOOLEAN :
       /\ Outcome(ok)
       /\ LET u == updates[1]
              k == [Component EXCEPT !.saved = IF ok THEN u.burndownData ELSE @,
                                     !.updates = Tail(@)]
          IN  SetComponent(updateBurndownData_done(k, u.currentTasksCount,
                                                   u.currentSprintsCount),
                           tasks, sprints)
  /\ UNCHANGED <<providerVars, tasks, sprints, calls>>

NextRecompute ==
  \/ ProviderRenders
  \/ LoadFetchResponse
  \/ LoadSaveResponse
  \/ LoadingTimeoutFires
  \/ UpdateSaveResponse

SpecRecompute == InitRecompute /\ [][NextRecompute]_vars

\* timers fire and the remote store answers
SpecRecomputeFair ==
  /\ SpecRecompute
  /\ WF_vars(LoadFetchResponse)
  /\ WF_vars(LoadSaveResponse)
  /\ WF_vars(LoadingTimeoutFires)
  /\ WF_vars(UpdateSaveResponse)


\* the chart has loaded, the project has sprints, and a count differs from the one
\* recorded
RecomputeDue ==
  /\ user
  /\ ~chartIsLoading
  /\ dataFetchedRef
  /\ currentSprintsCount(sprints) > 0
  /\ \/ currentTasksCount(tasks) # lastTasksLength
     \/ currentSprintsCount(sprints) # lastSprintsLength

\* C21: once the chart has loaded for a project with sprints, whenever the
\* project's task count or sprint count differs from the recorded counts, a
\* regeneration is eventually completed; and the recorded counts change only to the
\* counts of the render that triggered the regeneration which completes.
C21_RecomputeOnCountChange ==
  /\ RecomputeDue ~> (\E e \in Events(trace) : e.kind = "recomputed")
  /\ [][<<lastTasksLength', lastSprintsLength'>> # <<lastTasksLength, lastSprintsLength>> =>
          /\ \E e \in Events(trace') : e.kind = "recomputed"
          /\ \/ /\ updates # <<>>
                /\ lastTasksLength' = updates[1].currentTasksCount
                /\ lastSprintsLength' = updates[1].currentSprintsCount
             \/ /\ \E e \in Events(trace') : e.kind = "generated"
                /\ chartData' = <<>>
                /\ lastTasksLength' = currentTasksCount(tasks')
                /\ lastSprintsLength' = currentSprintsCount(sprints')]_vars

\* a regeneration triggered by two tasks and one sprint has completed and was saved
C21_Witness ==
  /\ \E e \in Events(trace) : e.kind = "recomputed"
  /\ lastTasksLength = 2
  /\ lastSprintsLength = 1
  /\ currentTasksCount(tasks) = 2
  /\ Len(chartData) > 0
  /\ rBurndown = chartData



\* --------------------------------------------- own and shared projects
\* the owner of a shared project removes the signed-in user from its collaborators
CollaboratorRemoved ==
  /\ rCollab # {}
  /\ rCollab' = {}
  /\ trace' = <<>>
  /\ UNCHANGED <<user, isLoading, cacheVars, freshVars, now, procs, rProjects, rSprints,
                 rTasks, rColumns, issued, calls, failures, chartVars>>

\* one own project and one shared project, each with a task in its backlog
CollabTasks ==
  {[id |-> "t1", sprint_id |-> NULL, project_id |-> "p2", status |-> "backlog",
    completion_date |-> NoDate, user_id |-> Other],
   [id |-> "t2", sprint_id |-> NULL, project_id |-> "p1", status |-> "backlog",
    completion_date |-> NoDate, user_id |-> Me]}

InitCollab ==
  /\ InitLocal
  /\ rProjects = SeedProjects
  /\ rCollab = SeedCollab
  /\ rSprints = {}
  /\ rTasks = CollabTasks
  /\ rColumns = {}
  /\ issued = IdsOf(rProjects) \cup IdsOf(rCollab) \cup IdsOf(rTasks)

NextCollab ==
  \/ Login
  \/ Tick
  \/ CollaboratorRemoved
  \/ (user /\ CallFetchCollaborativeProjects("a"))
  \/ \E p \in Procs :
       \/ FetchProjectsResponse(p, {TRUE})
       \/ FetchCollaborativeProjectsResponse(p, {TRUE})
       \/ FetchSprintsResponse(p, {TRUE})
       \/ FetchBacklogTasksResponse(p, {TRUE})
       \/ DelayElapsed(p)

SpecCollab == InitCollab /\ [][NextCollab]_vars

\* C31: when the read of fetchCollaborativeProjects succeeds with zero rows, no
\* project with isCollaboration remains in the cache and the key 'collaborations'
\* is marked fetched: its fetch time is now and its error flag is clear.
C31_EmptyCollabReadClearsScope ==
  \A e \in Events(trace) :
    (e.kind = "ok" /\ e.fn = "fetchCollaborativeProjects" /\ e.rows = 0) =>
      /\ ~Some(projects, LAMBDA x : x.isCollaboration)
      /\ lastFetchTime[cacheKey("collaborations", "")] = now
      /\ ~fetchErrors[cacheKey("collaborations", "")]



\* --------------------------------------------- freshness bookkeeping per key
\* the steps of a fetch in which updateFetchTime(key) runs, and those in which
\* markFetchError(key) runs
MarksFetched(e) ==
  e.kind = "ok" /\ e.fn \in FetchFns /\ (e.fn = "fetchCollaborativeProjects" => e.rows > 0)

MarksErrored(e) == e.kind = "fail" /\ e.fn \in FetchFns

\* C32: marking a key fetched sets that key's fetch time to now and clears that
\* key's error flag; marking a key errored sets that key's error flag and leaves
\* its fetch time as it was; the fetch times and error flags of all other keys
\* are as before.
C32_FreshnessIsPerKey ==
  [][\A e \in Events(trace') :
       LET K == KeyOf(e.fn, e.id)
           others == Keys \ {K}
       IN  /\ MarksFetched(e) =>
                /\ lastFetchTime'[K] = now
                /\ ~fetchErrors'[K]
                /\ \A k \in others : lastFetchTime'[k] = lastFetchTime[k]
                /\ \A k \in others : fetchErrors'[k] = fetchErrors[k]
           /\ MarksErrored(e) =>
                /\ fetchErrors'[K]
                /\ lastFetchTime'[K] = lastFetchTime[K]
                /\ \A k \in others : lastFetchTime'[k] = lastFetchTime[k]
                /\ \A k \in others : fetchErrors'[k] = fetchErrors[k]]_vars

\* a read of the sprints of p1 has failed inside the fan-out of fetchProjects: the
\* key 'projects' keeps its fetch time and stays clean
C32_Witness ==
  /\ \E e \in Events(trace) : e.kind = "fail" /\ e.fn = "fetchSprints" /\ e.id = "p1"
                                 /\ e.op = "fetchProjects"
  /\ fetchErrors[cacheKey("sprints", "p1")]
  /\ lastFetchTime[cacheKey("sprints", "p1")] = 0
  /\ lastFetchTime[cacheKey("projects", "")] = now
  /\ ~fetchErrors[cacheKey("projects", "")]



\* ------------------------------- the two fetches that login starts together
\* C33: when the fetchProjects and the fetchCollaborativeProjects that login
\* started have both ended, every read having succeeded, the project cache holds
\* every own project and every shared project, whichever response arrived first.
C33_LoginFetchesKeepBothScopes ==
  (user /\ calls = 0 /\ failures = 0 /\ \A p \in Procs : procs[p] = Idle) =>
    /\ \A r \in rProjects : Lists(projects, r.id)
    /\ \A r \in rCollab : Lists(projects, r.id)



\* ----------------------------------------------- a project with two members
\* another member of the project drags a task to another sprint of the project
OtherSessionMovesTask ==
  /\ \E t \in rTasks, s \in rSprints :
       /\ t.sprint_id \notin {NULL, s.id}
       /\ s.project_id = t.project_id
       /\ rTasks' = (rTasks \ {t}) \cup {[t EXCEPT !.sprint_id = s.id]}
  /\ trace' = <<>>
  /\ UNCHANGED <<user, isLoading, cacheVars, freshVars, now, procs, rProjects, rCollab,
                 rSprints, rColumns, issued, calls, failures, chartVars>>

\* every remote write is that of the other member: this session only reads
NextShare ==
  \/ Login
  \/ OtherSessionMovesTask
  \/ (user /\ CallRefreshProjectData("a", {"p1"}))
  \/ \E p \in Procs :
       \/ FetchProjectsResponse(p, {TRUE})
       \/ FetchCollaborativeProjectsResponse(p, {TRUE})
       \/ FetchSprintsResponse(p, {TRUE})
       \/ FetchTasksBySprintResponse(p, BOOLEAN)
       \/ FetchBacklogTasksResponse(p, {TRUE})
       \/ DelayElapsed(p)

SpecShare == InitMove /\ [][NextShare]_vars


\* ------------------------------------------------------------ unique ids
\* no two records of a cached list share an id
UniqueIds(view) == \A i, j \in 1..Len(view) : view[i].id = view[j].id => i = j

\* C34: in every reachable state no two cached tasks share an id, no two cached
\* sprints share an id and no two cached projects share an id.
C34_CachedIdsAreUnique ==
  UniqueIds(tasks) /\ UniqueIds(sprints) /\ UniqueIds(projects)



\* ------------------------------------------------ the scope of a task fetch
\* the scope that fetchTasksBySprint(sprintId) replaces, and the one that
\* fetchBacklogTasks(projectId) replaces
InSprintScope(t, sprintId) == t.sprintId = sprintId

InBacklogScope(t, projectId) ==
  t.status = "backlog" /\ t.projectId = projectId /\ t.sprintId = ""

\* C35: after a successful fetchTasksBySprint(S) the cached tasks of sprint S are
\* exactly the fetched rows and every other cached task is as before; after a
\* successful fetchBacklogTasks(P) the cached backlog tasks of P are exactly the
\* fetched rows and every other cached task, the sprint-bound tasks of P included,
\* is as before.
C35_TaskFetchReplacesOwnScope ==
  [][\A e \in Events(trace') :
       /\ (e.kind = "ok" /\ e.fn = "fetchTasksBySprint") =>
            /\ SelectSeq(tasks', LAMBDA t : InSprintScope(t, e.id))
                 = MapSeq(selectTasksBySprint(e.id), formatTask)
            /\ SelectSeq(tasks', LAMBDA t : ~InSprintScope(t, e.id))
                 = SelectSeq(tasks, LAMBDA t : ~InSprintScope(t, e.id))
       /\ (e.kind = "ok" /\ e.fn = "fetchBacklogTasks") =>
            /\ SelectSeq(tasks', LAMBDA t : InBacklogScope(t, e.id))
                 = MapSeq(selectBacklog(e.id), formatBacklogTask)
            /\ SelectSeq(tasks', LAMBDA t : ~InBacklogScope(t, e.id))
                 = SelectSeq(tasks, LAMBDA t : ~InBacklogScope(t, e.id))]_vars

\* the forced refetch of s1 that follows a move has answered: the backlog task and
\* the moved task, now cached under s2, are outside the scope and still cached
C35_Witness ==
  /\ \E e \in Events(trace) : e.kind = "ok" /\ e.fn = "fetchTasksBySprint" /\ e.id = "s1"
                                 /\ e.op = "updateTask"
  /\ \E i \in 1..Len(tasks) : InBacklogScope(tasks[i], "p1")
  /\ \E i \in 1..Len(tasks) : InSprintScope(tasks[i], "s2")



\* ------------------------------------------- tasks of sprints that are gone
\* C36: when a fetchSprints(P) returns after its read and the task fetches of its
\* sprints succeeded, every cached task of project P that names a sprint names a
\* sprint of the sprint cache.
C36_NoTaskOfRemovedSprint ==
  \A e \in Events(trace) :
    (e.kind = "return" /\ e.fn = "fetchSprints" /\ ~e.failed) =>
      \A i \in 1..Len(tasks) :
        (tasks[i].projectId = e.id /\ tasks[i].sprintId # "") =>
          Lists(sprints, tasks[i].sprintId)



\* ------------------------------------------- the order of deleteSprint
\* the cached tasks of a sprint
TasksOf(view, sprintId) == SelectSeq(view, LAMBDA t : t.sprintId = sprintId)

\* the deleteSprint whose remote call is outstanding in task p
Deleting(p, pcs) ==
  procs[p] # Idle /\ Arg(p).fn = "deleteSprint" /\ Arg(p).pc \in pcs

\* C37: while deleteSprint(S) waits for the delete of the tasks of S or of the row
\* of S, no board column of S is left in the store, and while it waits for the
\* delete of the row, no task of S is left; when a remote step of deleteSprint(S)
\* fails the row of S stays and the deleteSprint is over; and a step of
\* deleteSprint(S) takes S or its tasks out of the cache only if it is the answer
\* to the delete of the row and the row is gone.
C37_DeleteSprintIsOrdered ==
  /\ [](\A p \in Procs :
          /\ Deleting(p, {"tasksDelete", "sprintDelete"}) => selectColumns(Arg(p).id) = <<>>
          /\ Deleting(p, {"sprintDelete"}) => selectTasksBySprint(Arg(p).id) = <<>>)
  /\ [][\A p \in Procs :
          (Deleting(p, AwaitPcs) /\ \E e \in Events(trace') : e.by = p) =>
            LET S == Arg(p).id
            IN  /\ (\E e \in Events(trace') : e.kind = "fail" /\ e.fn = "deleteSprint") =>
                     /\ rSprints' = rSprints
                     /\ \A i \in 1..Len(procs'[p].stack) :
                          procs'[p].stack[i].fn # "deleteSprint"
                /\ (\/ Lists(sprints, S) /\ ~Lists(sprints', S)
                    \/ TasksOf(tasks', S) # TasksOf(tasks, S)) =>
                     /\ Arg(p).pc = "sprintDelete"
                     /\ S \notin IdsOf(rSprints')]_vars

\* the delete of the row of s1 is outstanding: its two columns and its task are
\* gone from the store, and the cache still holds s1 and its task
C37_Witness ==
  /\ Deleting("a", {"sprintDelete"})
  /\ Arg("a").id = "s1"
  /\ "s1" \in IdsOf(rSprints)
  /\ IdsOf(rColumns) = {}
  /\ "t1" \notin IdsOf(rTasks)
  /\ Lists(sprints, "s1")
  /\ Lists(tasks, "t1")



\* ------------------------------------------------------ the loading flag
\* every remote read answers and every delay elapses
FetchesAnswer ==
  \A p \in Procs :
    /\ WF_vars(FetchProjectsResponse(p, BOOLEAN))
    /\ WF_vars(FetchCollaborativeProjectsResponse(p, BOOLEAN))
    /\ WF_vars(FetchSprintsResponse(p, BOOLEAN))
    /\ WF_vars(FetchTasksBySprintResponse(p, BOOLEAN))
    /\ WF_vars(FetchBacklogTasksResponse(p, BOOLEAN))
    /\ WF_vars(DelayElapsed(p))

\* one own project with a sprint: login, refreshProjectData(), reads that
\* succeed or fail
SpecLoad == InitFetch /\ [][NextFan]_vars

SpecLoadFair == SpecLoad /\ FetchesAnswer

\* a fetchProjects call of task p has set the loading flag and has not ended
Loading(p) == \E i \in 1..Len(procs[p].stack) : procs[p].stack[i].fn = "fetchProjects"

\* C38: a fetchProjects call that has set the loading flag ends, after the whole
\* fan-out or after a failed read, and the flag is clear when it has ended; and the
\* flag is set only while a fetchProjects call is running.
C38_LoadingFlagIsCleared ==
  /\ \A p \in Procs : Loading(p) ~> (~Loading(p) /\ ~isLoading)
  /\ [](isLoading => \E p \in Procs : Loading(p))

\* the fan-out of fetchProjects has ended after a failed read of a project's
\* sprints, and the flag is clear
C38_Witness ==
  /\ ~isLoading
  /\ \E e \in Events(trace) : e.kind = "return" /\ e.fn = "fetchProjects" /\ e.failed
  /\ fetchErrors[cacheKey("sprints", "p1")]
  /\ \A p \in Procs : ~Loading(p)



\* ----------------------------------- one regeneration at a time
\* an updateBurndownData run has completed in the last step
Recomputed(t) == \E e \in Events(t) : e.kind = "recomputed"

\* C39: at most one updateBurndownData run started by the recompute effect is in
\* flight, and isUpdating is set exactly while one is; while a run is in flight no
\* step, whatever tasks and sprints the provider renders, starts a second one or
\* replaces it; and the step in which a run finishes, saved or not, takes it out of
\* flight and clears isUpdating, unless the effect starts the next run in that
\* same step.
C39_OneRegenerationInFlight ==
  /\ [](Len(updates) <= 1 /\ (isUpdating <=> updates # <<>>))
  /\ [][(updates # <<>> /\ ~Recomputed(trace')) => updates' = updates /\ isUpdating']_vars
  /\ [][(updates # <<>> /\ Recomputed(trace')) =>
          \/ updates' = <<>> /\ ~isUpdating'
          \/ /\ Len(updates') = 1
             /\ \E e \in Events(trace') : e.kind = "generated"
             /\ updates'[1].currentTasksCount = currentTasksCount(tasks')
             /\ updates'[1].currentSprintsCount = currentSprintsCount(sprints')]_vars

\* a regeneration is in flight and the provider has rendered another number of
\* tasks since it started
C39_Witness ==
  /\ isUpdating
  /\ Len(updates) = 1
  /\ ~chartIsLoading
  /\ dataFetchedRef
  /\ currentSprintsCount(sprints) > 0
  /\ updates[1].currentTasksCount # currentTasksCount(tasks)

====
